---- MODULE Spec2Model ----
(***************************************************************************)
(* A model of the format-preserving HCL parser of hcl-edit                 *)
(* (crates/hcl-edit/src/parser).  The input is a sequence of bytes (one-    *)
(* character strings); every parser is an operator that takes a byte       *)
(* offset and returns either Ok(pos, val), a backtracking error or a cut   *)
(* (hard) error, exactly as the winnow combinators of the source do.       *)
(***************************************************************************)
EXTENDS Integers, Sequences, FiniteSets, TLC

VARIABLES input, pc, mode, stream, result, out, calls

vars == <<input, pc, mode, stream, result, out, calls>>

(***************************************************************************)
(* Byte cursor.  Offsets are 0-based as in the source; At(p) is the byte   *)
(* at offset p, or EOF past the end.                                       *)
(***************************************************************************)
EOF == "EOF"

InputLen == Len(input)

At(p) == IF p < Len(input) THEN input[p + 1] ELSE EOF

Slice(s, e) == SubSeq(input, s + 1, e)

Ok(p, v) == [ok |-> TRUE, pos |-> p, val |-> v]

Backtrack(p, m) == [ok |-> FALSE, cut |-> FALSE, pos |-> p, msg |-> m]

Cut(p, m) == [ok |-> FALSE, cut |-> TRUE, pos |-> p, msg |-> m]

cut_err(r) == IF r.ok THEN r ELSE Cut(r.pos, r.msg)

\* Let(v, LAMBDA x : e) is e with x standing for v, as LET x == v IN e: the
\* local name of an intermediate result (a `let` of the source).
Let(v, K(_)) == K(v)

\* An absent decoration (Option::None) and an absent node.
NoSpan == <<>>

None == [t |-> "None"]

Span(s, e) == <<s, e>>

(***************************************************************************)
(* Character classes.                                                      *)
(***************************************************************************)
Digits == {"0", "1", "2"}

Letters == {"a", "b", "c", "d", "e", "f", "g", "i", "l", "m", "n", "o",
            "r", "s", "t", "u", "x", "y", "_", "k", "v"}

is_id_start(b) == b \in Letters

is_id_continue(b) == b \in Letters \cup Digits \cup {"-"}

(***************************************************************************)
(* Trivia.  sp is horizontal whitespace; ws additionally takes line        *)
(* endings and both comment forms.                                         *)
(***************************************************************************)
RECURSIVE sp(_)
sp(p) == IF At(p) \in {" ", "\t"} THEN sp(p + 1) ELSE p

RECURSIVE UntilLf(_)
UntilLf(p) == IF At(p) \in {"\n", EOF} THEN p ELSE UntilLf(p + 1)

\* End offset of the line comment that starts at p, or -1 when none does.
line_comment(p) ==
    IF At(p) = "#" THEN UntilLf(p + 1)
    ELSE IF At(p) = "/" /\ At(p + 1) = "/" THEN UntilLf(p + 2)
    ELSE -1

RECURSIVE UntilStarSlash(_)
UntilStarSlash(p) ==
    IF At(p) = EOF THEN -1
    ELSE IF At(p) = "*" /\ At(p + 1) = "/" THEN p + 2
    ELSE UntilStarSlash(p + 1)

\* End offset of the block comment that starts at p, or -1.
inline_comment(p) ==
    IF At(p) = "/" /\ At(p + 1) = "*" THEN UntilStarSlash(p + 2) ELSE -1

opt_line_comment(p) == IF line_comment(p) >= 0 THEN line_comment(p) ELSE p

RECURSIVE ws(_)
ws(p) ==
    IF At(p) \in {" ", "\t", "\n", "\r"} THEN ws(p + 1)
    ELSE IF line_comment(p) >= 0 THEN ws(line_comment(p))
    ELSE IF inline_comment(p) >= 0 THEN ws(inline_comment(p))
    ELSE p

\* winnow::ascii::line_ending: "\n" or "\r\n"; end offset or -1.
line_ending(p) ==
    IF At(p) = "\n" THEN p + 1
    ELSE IF At(p) = "\r" /\ At(p + 1) = "\n" THEN p + 2
    ELSE -1

(***************************************************************************)
(* Primitive lexers.                                                       *)
(***************************************************************************)
RECURSIVE IdEnd(_)
IdEnd(p) == IF is_id_continue(At(p)) THEN IdEnd(p + 1) ELSE p

str_ident(p) ==
    IF is_id_start(At(p)) THEN Ok(IdEnd(p + 1), Slice(p, IdEnd(p + 1)))
    ELSE Backtrack(p, "identifier")

RECURSIVE DigitsEnd(_)
DigitsEnd(p) == IF At(p) \in Digits THEN DigitsEnd(p + 1) ELSE p

\* number::number: an integer, or a float with a fraction.
num(p) ==
    IF At(p) \notin Digits THEN Backtrack(p, "number")
    ELSE Let(DigitsEnd(p), LAMBDA q :
             IF At(q) = "." /\ At(q + 1) \in Digits
         THEN Ok(DigitsEnd(q + 1), Slice(p, DigitsEnd(q + 1)))
         ELSE Ok(q, Slice(p, q)))

(***************************************************************************)
(* Tree constructors.  Every expression carries a decoration: pre and suf  *)
(* are byte ranges of the input (resolved to text by despan).              *)
(***************************************************************************)
Decor == [pre |-> NoSpan, suf |-> NoSpan]

Dec(e, pre, suf) == [e EXCEPT !.pre = pre, !.suf = suf]

Number(repr, negated) == [t |-> "Number", repr |-> repr, negated |-> negated] @@ Decor

Variable(name) == [t |-> "Variable", name |-> name] @@ Decor

UnaryOp(op, e) == [t |-> "UnaryOp", op |-> op, expr |-> e] @@ Decor

BinaryOp(l, op, r) == [t |-> "BinaryOp", lhs |-> l, op |-> op, rhs |-> r] @@ Decor

Conditional(c, a, b) == [t |-> "Conditional", cond |-> c, true |-> a, false |-> b] @@ Decor

Traversal(e, ops) == [t |-> "Traversal", expr |-> e, ops |-> ops] @@ Decor

\* dec_uint: the digits as an integer, so leading zeros are not kept.
RECURSIVE dec_uint(_)
dec_uint(d) == IF Len(d) > 1 /\ d[1] = "0" THEN dec_uint(Tail(d)) ELSE d

(***************************************************************************)
(* ExprParseState: the expression under construction, the pending unary    *)
(* operator and the pending whitespace.                                    *)
(***************************************************************************)
DefaultExprState == [unary |-> None, current |-> None, ws |-> NoSpan]

on_ws(st, span) ==
    IF st.ws # NoSpan THEN [st EXCEPT !.ws = Span(st.ws[1], span[2])]
    ELSE [st EXCEPT !.ws = span]

on_span(st, span) == st

on_unary_op(st, operator, span) == on_ws([st EXCEPT !.unary = operator], span)

on_expr_term(st, e) ==
    IF st.unary # None
    THEN [st EXCEPT !.current = UnaryOp(st.unary.op, [e EXCEPT !.pre = st.ws]),
                    !.unary = None, !.ws = NoSpan]
    ELSE [st EXCEPT !.current = e]

TakeWs(st) == IF st.ws # NoSpan THEN [st.current EXCEPT !.suf = st.ws] ELSE st.current

on_traversal(st, operators) ==
    [st EXCEPT !.current = Traversal(TakeWs(st), operators), !.ws = NoSpan]

on_conditional(st, true_expr, false_expr) ==
    [st EXCEPT !.current = Conditional(TakeWs(st), true_expr, false_expr), !.ws = NoSpan]

on_binary_op(st, operator, rhs_expr) ==
    [st EXCEPT !.current = BinaryOp(TakeWs(st), operator, rhs_expr), !.ws = NoSpan]

into_expr(st) == st.current

(***************************************************************************)
(* Expression parser (expr.rs).  Parsers that take the expression state    *)
(* return it as the value of their result.                                 *)
(***************************************************************************)
RECURSIVE expr(_), expr_inner(_, _), expr_loop(_, _), expr_term(_, _),
          traversal(_, _), traversal_ops(_, _), traversal_operator(_),
          unary_op(_, _), binary_op(_, _), conditional(_, _),
          array(_, _), array_items(_, _), array_elem(_), array_more(_, _),
          object(_, _), object_items(_, _), object_loop(_, _, _),
          object_key(_), object_value(_),
          for_list_expr(_, _), for_object_expr(_, _), for_intro(_), for_cond(_),
          parenthesis(_, _), stringlike(_, _), identlike(_, _), func_args(_),
          func_arg(_), func_args_more(_, _)

\* expr with whitespace and comments taken before and after the expression.
expr_with_trivia(p) ==
    Let(expr_inner(ws(p), DefaultExprState), LAMBDA r :
        IF r.ok THEN Ok(ws(r.pos), into_expr(r.val)) ELSE r)

expr(p) ==
    Let(expr_inner(p, DefaultExprState), LAMBDA r :
        IF r.ok THEN Ok(r.pos, into_expr(r.val)) ELSE r)

expr_inner(p, st) ==
    Let(expr_term(p, st), LAMBDA t :
        IF ~t.ok THEN t ELSE expr_loop(t.pos, on_span(t.val, Span(p, t.pos))))

BinaryOpStart == {"!", "<", ">", "+", "-", "*", "/", "%", "&", "|"}

\* The driver loop keeping the whitespace it has read when no operator follows.
expr_loop_keeps_ws(p, st) ==
    Let(sp(p), LAMBDA remaining :
    Let(Span(p, remaining), LAMBDA suffix :
    Let(At(remaining), LAMBDA c1 :
    Let(At(remaining + 1), LAMBDA c2 :
        IF c2 = EOF THEN Ok(remaining, on_ws(st, suffix))
        ELSE IF (c1 = "/" /\ c2 \in {"/", "*"}) \/ (c1 = "." /\ c2 = ".")
        THEN Ok(remaining, on_ws(st, suffix))
        ELSE IF c1 \in {".", "["}
        THEN Let(traversal(remaining, on_ws(st, suffix)), LAMBDA r :
                 IF r.ok THEN expr_loop(r.pos, r.val) ELSE r)
        ELSE IF c1 = "?"
        THEN conditional(remaining, on_ws(st, suffix))
        ELSE IF (c1 = "=" /\ c2 = "=") \/ c1 \in BinaryOpStart
        THEN binary_op(remaining, on_ws(st, suffix))
        ELSE Ok(remaining, on_ws(st, suffix))))))

\* One pass of the driver loop, with the cursor at p after a term or traversal.
expr_loop(p, st) ==
    Let(sp(p), LAMBDA remaining :
    Let(Span(p, remaining), LAMBDA suffix :
    Let(At(remaining), LAMBDA c1 :
    Let(At(remaining + 1), LAMBDA c2 :
        IF c2 = EOF THEN Ok(p, st)
        ELSE IF (c1 = "/" /\ c2 \in {"/", "*"}) \/ (c1 = "." /\ c2 = ".")
        THEN Ok(p, st)
        ELSE IF c1 \in {".", "["}
        THEN Let(traversal(remaining, on_ws(st, suffix)), LAMBDA r :
                 IF r.ok THEN expr_loop(r.pos, r.val) ELSE r)
        ELSE IF c1 = "?"
        THEN conditional(remaining, on_ws(st, suffix))
        ELSE IF (c1 = "=" /\ c2 = "=") \/ c1 \in BinaryOpStart
        THEN binary_op(remaining, on_ws(st, suffix))
        ELSE Ok(p, st)))))

number(p, st) ==
    Let(num(p), LAMBDA n :
        IF n.ok THEN Ok(n.pos, on_expr_term(st, Number(n.val, FALSE))) ELSE n)

\* neg_number without the whitespace after the `-`: preceded(b'-', num).
neg_number_no_sp(p, st) ==
    IF At(p) # "-" THEN Backtrack(p, "-")
    ELSE Let(num(p + 1), LAMBDA n :
             IF n.ok THEN Ok(n.pos, on_expr_term(st, Number(Slice(p, n.pos), TRUE)))
             ELSE n)

neg_number(p, st) ==
    IF At(p) # "-" THEN Backtrack(p, "-")
    ELSE Let(num(sp(p + 1)), LAMBDA n :
             IF n.ok THEN Ok(n.pos, on_expr_term(st, Number(Slice(p, n.pos), TRUE)))
             ELSE n)

\* heredoc_start fails (backtracking) unless the term starts with <<; heredoc
\* templates themselves are outside the model, whose inputs never hold <<.
heredoc(p, st) ==
    IF At(p + 1) # "<" THEN Backtrack(p, "<<") ELSE Cut(p, "heredoc")

unary_operator(p) ==
    IF At(p) = "-" THEN Ok(p + 1, "Neg")
    ELSE IF At(p) = "!" THEN Ok(p + 1, "Not")
    ELSE Backtrack(p, "unary operator")

unary_op(p, st) ==
    Let(unary_operator(p), LAMBDA o :
        IF ~o.ok THEN o
        ELSE expr_term(sp(o.pos),
                       on_unary_op(st, [t |-> "UnaryOperator", op |-> o.val],
                                   Span(o.pos, sp(o.pos)))))

expr_term(p, st) ==
    Let(At(p), LAMBDA b :
        IF b = EOF THEN Backtrack(p, "expression")
        ELSE IF b = "\"" THEN stringlike(p, st)
        ELSE IF b = "[" THEN array(p, st)
        ELSE IF b = "{" THEN object(p, st)
        ELSE IF b \in Digits THEN number(p, st)
        ELSE IF b = "<" THEN heredoc(p, st)
        ELSE IF b = "-"
        THEN Let(neg_number(p, st), LAMBDA n :
                 IF n.ok \/ n.cut THEN n ELSE unary_op(p, st))
        ELSE IF b = "!" THEN unary_op(p, st)
        ELSE IF b = "(" THEN parenthesis(p, st)
        ELSE IF is_id_start(b) THEN identlike(p, st)
        ELSE Cut(p, "expression"))

(***************************************************************************)
(* Traversal operators.  pre is the decoration of the operator itself, ipre *)
(* and isuf the decoration of the value inside it.                         *)
(***************************************************************************)
TravOp(t, value, ipre, isuf) ==
    [t |-> t, value |-> value, pre |-> NoSpan, ipre |-> ipre, isuf |-> isuf]

traversal_operator(p) ==
    IF At(p) = "."
    THEN Let(ws(p + 1), LAMBDA w :
         Let(At(w), LAMBDA b :
             IF b = EOF THEN Backtrack(w, "traversal operator")
             ELSE IF b = "*" THEN Ok(w + 1, TravOp("AttrSplat", <<>>, Span(p + 1, w), NoSpan))
             ELSE IF b \in Digits
             THEN Ok(DigitsEnd(w), TravOp("LegacyIndex", dec_uint(Slice(w, DigitsEnd(w))),
                                          Span(p + 1, w), NoSpan))
             ELSE IF is_id_start(b)
             THEN Ok(IdEnd(w), TravOp("GetAttr", Slice(w, IdEnd(w)), Span(p + 1, w), NoSpan))
             ELSE Cut(w, "traversal operator")))
    ELSE IF At(p) = "["
    THEN Let(ws(p + 1), LAMBDA w :
         Let(At(w), LAMBDA b :
             IF b = EOF THEN Backtrack(w, "traversal operator")
             ELSE IF b = "*"
             THEN Let(ws(w + 1), LAMBDA w2 :
                      IF At(w2) = "]"
                      THEN Ok(w2 + 1, TravOp("FullSplat", <<>>, Span(p + 1, w), Span(w + 1, w2)))
                      ELSE Cut(w2, "]"))
             ELSE Let(expr(w), LAMBDA e :
                      IF ~e.ok THEN e
                      ELSE Let(ws(e.pos), LAMBDA w2 :
                               IF At(w2) = "]"
                               THEN Ok(w2 + 1, TravOp("Index", e.val, Span(p + 1, w),
                                                      Span(e.pos, w2)))
                               ELSE Cut(w2, "]")))))
    ELSE Backtrack(p, "traversal operator")

\* traversal_ops as repeat(0.., ..): no operator is a traversal as well.
traversal_ops_from_zero(p, acc) ==
    Let(traversal_operator(sp(p)), LAMBDA r :
        IF r.ok THEN traversal_ops(r.pos, Append(acc, [r.val EXCEPT !.pre = Span(p, sp(p))]))
        ELSE IF r.cut THEN r
        ELSE Ok(p, acc))

\* repeat(1.., prefix_decorated(sp, traversal_operator)): acc holds the
\* operators parsed so far.
traversal_ops(p, acc) ==
    Let(traversal_operator(sp(p)), LAMBDA r :
        IF r.ok THEN traversal_ops(r.pos, Append(acc, [r.val EXCEPT !.pre = Span(p, sp(p))]))
        ELSE IF r.cut THEN r
        ELSE IF acc = <<>> THEN Backtrack(p, "traversal")
        ELSE Ok(p, acc))

traversal(p, st) ==
    Let(traversal_ops(p, <<>>), LAMBDA r :
        IF r.ok THEN Ok(r.pos, on_traversal(st, r.val)) ELSE r)

binary_operator(p) ==
    Let(At(p), LAMBDA b :
    Let(At(p + 1), LAMBDA c :
        IF b = "=" THEN (IF c = "=" THEN Ok(p + 2, "Eq") ELSE Backtrack(p + 1, "="))
        ELSE IF b = "!" THEN (IF c = "=" THEN Ok(p + 2, "NotEq") ELSE Backtrack(p + 1, "="))
        ELSE IF b = "<" THEN (IF c = "=" THEN Ok(p + 2, "LessEq") ELSE Ok(p + 1, "Less"))
        ELSE IF b = ">" THEN (IF c = "=" THEN Ok(p + 2, "GreaterEq") ELSE Ok(p + 1, "Greater"))
        ELSE IF b = "+" THEN Ok(p + 1, "Plus")
        ELSE IF b = "-" THEN Ok(p + 1, "Minus")
        ELSE IF b = "*" THEN Ok(p + 1, "Mul")
        ELSE IF b = "/" THEN Ok(p + 1, "Div")
        ELSE IF b = "%" THEN Ok(p + 1, "Mod")
        ELSE IF b = "&" THEN (IF c = "&" THEN Ok(p + 2, "And") ELSE Backtrack(p + 1, "&"))
        ELSE IF b = "|" THEN (IF c = "|" THEN Ok(p + 2, "Or") ELSE Backtrack(p + 1, "|"))
        ELSE Backtrack(p, "binary operator")))

\* A binary operation whose right operand is a single term: the operation
\* becomes the left operand of the operator that follows.
binary_op_left(p, st) ==
    Let(binary_operator(p), LAMBDA o :
        IF ~o.ok THEN o
        ELSE Let(sp(o.pos), LAMBDA w :
             Let(expr_term(w, DefaultExprState), LAMBDA e :
                 IF ~e.ok THEN e
                 ELSE expr_loop(e.pos,
                          on_binary_op(st, o.val,
                              [into_expr(e.val) EXCEPT !.pre = Span(o.pos, w)])))))

binary_op(p, st) ==
    Let(binary_operator(p), LAMBDA o :
        IF ~o.ok THEN o
        ELSE Let(sp(o.pos), LAMBDA w :
             Let(expr(w), LAMBDA e :
                 IF ~e.ok THEN e
                 ELSE Ok(e.pos, on_binary_op(st, o.val, [e.val EXCEPT !.pre = Span(o.pos, w)])))))

conditional(p, st) ==
    IF At(p) # "?" THEN Backtrack(p, "?")
    ELSE Let(sp(p + 1), LAMBDA w1 :
         Let(expr(w1), LAMBDA a :
             IF ~a.ok THEN a
             ELSE Let(sp(a.pos), LAMBDA w2 :
                      IF At(w2) # ":" THEN Cut(w2, ":")
                      ELSE Let(sp(w2 + 1), LAMBDA w3 :
                           Let(expr(w3), LAMBDA b :
                               IF ~b.ok THEN b
                               ELSE Ok(b.pos,
                                       on_conditional(st,
                                           Dec(a.val, Span(p + 1, w1), Span(a.pos, w2)),
                                           [b.val EXCEPT !.pre = Span(w2 + 1, w3)])))))))

(***************************************************************************)
(* Arrays, objects, for expressions, parentheses, function calls.          *)
(***************************************************************************)
Array(values, comma, trailing) ==
    [t |-> "Array", values |-> values, trailing_comma |-> comma, trailing |-> trailing] @@ Decor

Object(items, trailing) == [t |-> "Object", items |-> items, trailing |-> trailing] @@ Decor

Parenthesis(e) == [t |-> "Parenthesis", inner |-> e] @@ Decor

FuncCall(name, args) == [t |-> "FuncCall", name |-> name, args |-> args] @@ Decor

ForExpr(intro, key_expr, value_expr, grouping, cond) ==
    [t |-> "ForExpr", intro |-> intro, key_expr |-> key_expr, value_expr |-> value_expr,
     grouping |-> grouping, cond |-> cond] @@ Decor

\* peek((ws, "for")): the lookahead without the byte that ends the keyword.
for_lookahead_prefix(p) ==
    Let(ws(p), LAMBDA w : At(w) = "f" /\ At(w + 1) = "o" /\ At(w + 2) = "r")

\* peek((ws, "for", one_of(" \t#/")))
for_lookahead(p) ==
    Let(ws(p), LAMBDA w :
        /\ At(w) = "f" /\ At(w + 1) = "o" /\ At(w + 2) = "r"
        /\ At(w + 3) \in {" ", "\t", "#", "/"})

for_expr_or_items(p, for_expr_parser, items_parser) ==
    IF for_lookahead(p) THEN for_expr_parser ELSE items_parser

\* decorated(ws, preceded(not(']'), expr), ws)
array_elem(p) ==
    Let(ws(p), LAMBDA w :
        IF At(w) = "]" THEN Backtrack(w, "not ]")
        ELSE Let(expr(w), LAMBDA e :
                 IF ~e.ok THEN e
                 ELSE Ok(ws(e.pos), Dec(e.val, Span(p, w), Span(e.pos, ws(e.pos))))))

\* separated0 after its first element: a separator and one more element.
array_more(p, acc) ==
    IF At(p) # "," THEN Ok(p, acc)
    ELSE Let(array_elem(p + 1), LAMBDA e :
             IF e.ok THEN array_more(e.pos, Append(acc, e.val))
             ELSE IF e.cut THEN e
             ELSE Ok(p, acc))

array_items(p, st) ==
    Let(array_elem(p), LAMBDA first :
    Let(IF first.ok THEN array_more(first.pos, <<first.val>>)
                  ELSE IF first.cut THEN first
                  ELSE Ok(p, <<>>), LAMBDA values :
        IF ~values.ok THEN values
        ELSE Let(At(values.pos) = ",", LAMBDA comma :
             Let(IF comma THEN values.pos + 1 ELSE values.pos, LAMBDA q :
                 Ok(ws(q), on_expr_term(st, Array(values.val, comma, Span(q, ws(q)))))))))

array(p, st) ==
    IF At(p) # "[" THEN Backtrack(p, "[")
    ELSE Let(for_expr_or_items(p + 1, for_list_expr(p + 1, st), array_items(p + 1, st)), LAMBDA r :
             IF ~r.ok THEN r
             ELSE IF At(r.pos) = "]" THEN Ok(r.pos + 1, r.val)
             ELSE Cut(r.pos, "]"))

\* decorated(ws, cut_ident, ws)
for_ident(p) ==
    Let(ws(p), LAMBDA w :
    Let(cut_err(str_ident(w)), LAMBDA i :
        IF ~i.ok THEN i
        ELSE Ok(ws(i.pos), [name |-> i.val, pre |-> Span(p, w), suf |-> Span(i.pos, ws(i.pos))])))

\* decorated(ws, expr, ws)
ws_expr(p) ==
    Let(ws(p), LAMBDA w :
    Let(expr(w), LAMBDA e :
        IF ~e.ok THEN e
        ELSE Ok(ws(e.pos), Dec(e.val, Span(p, w), Span(e.pos, ws(e.pos))))))

for_intro(p) ==
    Let(ws(p), LAMBDA w :
        IF ~(At(w) = "f" /\ At(w + 1) = "o" /\ At(w + 2) = "r") THEN Backtrack(w, "for")
        ELSE Let(for_ident(w + 3), LAMBDA first :
                 IF ~first.ok THEN first
                 ELSE Let(IF At(first.pos) = "," THEN for_ident(first.pos + 1)
                                    ELSE Ok(first.pos, None), LAMBDA second :
                          IF ~second.ok THEN second
                          ELSE IF ~(At(second.pos) = "i" /\ At(second.pos + 1) = "n")
                          THEN Cut(second.pos, "in")
                          ELSE Let(ws_expr(second.pos + 2), LAMBDA e :
                                   IF ~e.ok THEN e
                                   ELSE IF At(e.pos) # ":" THEN Cut(e.pos, ":")
                                   ELSE Ok(e.pos + 1,
                                           [key_var |-> IF second.val = None THEN None
                                                        ELSE first.val,
                                            value_var |-> IF second.val = None THEN first.val
                                                          ELSE second.val,
                                            collection |-> e.val,
                                            pre |-> Span(p, w)])))))

for_cond(p) ==
    Let(ws(p), LAMBDA w :
        IF ~(At(w) = "i" /\ At(w + 1) = "f") THEN Backtrack(w, "if")
        ELSE Let(ws_expr(w + 2), LAMBDA e :
                 IF ~e.ok THEN e
                 ELSE Ok(e.pos, [expr |-> e.val, pre |-> Span(p, w)])))

\* opt(for_cond)
opt_for_cond(p) ==
    Let(for_cond(p), LAMBDA c :
        IF c.ok \/ c.cut THEN c ELSE Ok(p, None))

for_list_expr(p, st) ==
    Let(for_intro(p), LAMBDA intro :
        IF ~intro.ok THEN intro
        ELSE Let(ws_expr(intro.pos), LAMBDA v :
                 IF ~v.ok THEN v
                 ELSE Let(opt_for_cond(v.pos), LAMBDA c :
                          IF ~c.ok THEN c
                          ELSE Ok(c.pos, on_expr_term(st,
                                   ForExpr(intro.val, None, v.val, FALSE, c.val))))))

for_object_expr(p, st) ==
    Let(for_intro(p), LAMBDA intro :
        IF ~intro.ok THEN intro
        ELSE Let(ws_expr(intro.pos), LAMBDA k :
                 IF ~k.ok THEN k
                 ELSE IF ~(At(k.pos) = "=" /\ At(k.pos + 1) = ">") THEN Cut(k.pos, "=>")
                 ELSE Let(ws_expr(k.pos + 2), LAMBDA v :
                          IF ~v.ok THEN v
                          ELSE Let(/\ At(v.pos) = "."
                                               /\ At(v.pos + 1) = "."
                                               /\ At(v.pos + 2) = ".", LAMBDA grouping :
                               Let(IF grouping THEN v.pos + 3 ELSE v.pos, LAMBDA q :
                               Let(opt_for_cond(q), LAMBDA c :
                                   IF ~c.ok THEN c
                                   ELSE Ok(c.pos, on_expr_term(st,
                                            ForExpr(intro.val, k.val, v.val, grouping, c.val)))))))))

parenthesis(p, st) ==
    IF At(p) # "(" THEN Cut(p, "(")
    ELSE Let(ws_expr(p + 1), LAMBDA e :
             IF ~e.ok THEN e
             ELSE IF At(e.pos) = ")" THEN Ok(e.pos + 1, on_expr_term(st, Parenthesis(e.val)))
             ELSE Cut(e.pos, ")"))

(***************************************************************************)
(* Quoted strings and templates.  A quoted string without `${` and `%{` is *)
(* a String; with one of them it is a Template, a sequence of literals,    *)
(* interpolations and directives.  Escape sequences and strip markers are  *)
(* left out.                                                               *)
(***************************************************************************)
String(value) == [t |-> "String", value |-> value] @@ Decor

Template(elements) == [t |-> "Template", elements |-> elements]

Keyword(p, word) == \A i \in 1..Len(word) : At(p + i - 1) = word[i]

MarkerAt(p) == At(p) \in {"$", "%"} /\ At(p + 1) = "{"

\* End offset of the run of literal bytes that starts at p.
RECURSIVE LiteralEnd(_)
LiteralEnd(p) == IF At(p) \in {"\"", EOF} \/ MarkerAt(p) THEN p ELSE LiteralEnd(p + 1)

string(p) ==
    IF At(p) # "\"" THEN Backtrack(p, "\"")
    ELSE Let(LiteralEnd(p + 1), LAMBDA e :
             IF At(e) = "\"" THEN Ok(e + 1, Slice(p + 1, e)) ELSE Backtrack(e, "\""))

\* `%{` ws word ws `}`: the else, endif and endfor parts of a directive.
directive_tag(p, word) ==
    IF ~(At(p) = "%" /\ At(p + 1) = "{") THEN Cut(p, "%{")
    ELSE Let(ws(p + 2), LAMBDA w :
             IF ~Keyword(w, word) THEN Backtrack(w, "directive")
             ELSE Let(ws(w + Len(word)), LAMBDA w2 :
                      IF At(w2) = "}"
                      THEN Ok(w2 + 1, [pre |-> Span(p + 2, w), suf |-> Span(w + Len(word), w2)])
                      ELSE Cut(w2, "}")))

\* A template ends at the closing quote and at the tag that ends the
\* directive it is part of.
template_end(p) ==
    \/ At(p) \in {"\"", EOF}
    \/ /\ At(p) = "%" /\ At(p + 1) = "{"
       /\ Let(ws(p + 2), LAMBDA w :
              \/ Keyword(w, <<"e", "l", "s", "e">>)
              \/ Keyword(w, <<"e", "n", "d", "i", "f">>)
              \/ Keyword(w, <<"e", "n", "d", "f", "o", "r">>))

RECURSIVE template(_, _), if_directive(_, _), for_directive(_, _)

\* ${ expr }
interpolation(p) ==
    Let(cut_err(ws_expr(p + 2)), LAMBDA e :
        IF ~e.ok THEN e
        ELSE IF At(e.pos) = "}" THEN Ok(e.pos + 1, [t |-> "Interpolation", expr |-> e.val])
        ELSE Cut(e.pos, "}"))

\* %{ if EXPR } TEMPLATE [%{ else } TEMPLATE] %{ endif }, with w at `if`.
if_directive(p, w) ==
    Let(cut_err(ws_expr(w + 2)), LAMBDA c :
        IF ~c.ok THEN c
        ELSE IF At(c.pos) # "}" THEN Cut(c.pos, "}")
        ELSE Let(template(c.pos + 1, <<>>), LAMBDA body :
                 IF ~body.ok THEN body
                 ELSE Let(directive_tag(body.pos, <<"e", "l", "s", "e">>), LAMBDA else_tag :
                      Let(IF else_tag.ok THEN template(else_tag.pos, <<>>)
                          ELSE Ok(body.pos, <<>>), LAMBDA else_body :
                          IF ~else_tag.ok /\ else_tag.cut THEN else_tag
                          ELSE IF ~else_body.ok THEN else_body
                          ELSE Let(cut_err(directive_tag(else_body.pos,
                                                         <<"e", "n", "d", "i", "f">>)),
                                   LAMBDA endif :
                                   IF ~endif.ok THEN endif
                                   ELSE Ok(endif.pos,
                                           [t |-> "If",
                                            if_expr |-> [cond_expr |-> c.val,
                                                         template |-> Template(body.val),
                                                         pre |-> Span(p + 2, w)],
                                            else_expr |->
                                                IF else_tag.ok
                                                THEN [template |-> Template(else_body.val),
                                                      pre |-> else_tag.val.pre,
                                                      suf |-> else_tag.val.suf]
                                                ELSE None,
                                            endif_expr |-> endif.val]))))))

\* %{ for K[,V] in EXPR } TEMPLATE %{ endfor }, with w at `for`.
for_directive(p, w) ==
    Let(for_ident(w + 3), LAMBDA first :
        IF ~first.ok THEN first
        ELSE Let(IF At(first.pos) = "," THEN for_ident(first.pos + 1)
                 ELSE Ok(first.pos, None), LAMBDA second :
                 IF ~second.ok THEN second
                 ELSE IF ~(At(second.pos) = "i" /\ At(second.pos + 1) = "n")
                 THEN Cut(second.pos, "in")
                 ELSE Let(cut_err(ws_expr(second.pos + 2)), LAMBDA e :
                          IF ~e.ok THEN e
                          ELSE IF At(e.pos) # "}" THEN Cut(e.pos, "}")
                          ELSE Let(template(e.pos + 1, <<>>), LAMBDA body :
                                   IF ~body.ok THEN body
                                   ELSE Let(cut_err(directive_tag(body.pos,
                                                <<"e", "n", "d", "f", "o", "r">>)),
                                            LAMBDA endfor :
                                            IF ~endfor.ok THEN endfor
                                            ELSE Ok(endfor.pos,
                                                    [t |-> "For",
                                                     for_expr |->
                                                        [key_var |-> IF second.val = None
                                                                     THEN None ELSE first.val,
                                                         value_var |-> IF second.val = None
                                                                       THEN first.val
                                                                       ELSE second.val,
                                                         collection_expr |-> e.val,
                                                         template |-> Template(body.val),
                                                         pre |-> Span(p + 2, w)],
                                                     endfor_expr |-> endfor.val]))))))

directive(p) ==
    Let(ws(p + 2), LAMBDA w :
    Let(IF Keyword(w, <<"i", "f">>) THEN if_directive(p, w)
        ELSE IF Keyword(w, <<"f", "o", "r">>) THEN for_directive(p, w)
        ELSE Cut(w, "directive"), LAMBDA d :
        IF ~d.ok THEN d ELSE Ok(d.pos, [t |-> "Directive", directive |-> d.val])))

\* The elements of a template from p on; acc holds the elements parsed so far.
template(p, acc) ==
    IF template_end(p) THEN Ok(p, acc)
    ELSE IF MarkerAt(p)
    THEN Let(IF At(p) = "$" THEN interpolation(p) ELSE directive(p), LAMBDA e :
             IF ~e.ok THEN e ELSE template(e.pos, Append(acc, e.val)))
    ELSE template(LiteralEnd(p), Append(acc, [t |-> "Literal", span |-> Span(p, LiteralEnd(p))]))

string_template(p) ==
    IF At(p) # "\"" THEN Backtrack(p, "\"")
    ELSE Let(template(p + 1, <<>>), LAMBDA r :
             IF ~r.ok THEN r
             ELSE IF At(r.pos) = "\"" THEN Ok(r.pos + 1, Template(r.val) @@ Decor)
             ELSE Cut(r.pos, "\""))

\* alt((string, string_template))
stringlike(p, st) ==
    Let(string(p), LAMBDA s :
        IF s.ok THEN Ok(s.pos, on_expr_term(st, String(s.val)))
        ELSE Let(string_template(p), LAMBDA r :
                 IF r.ok THEN Ok(r.pos, on_expr_term(st, r.val)) ELSE r))

(***************************************************************************)
(* Objects.  An Object is an insertion-ordered map from ObjectKey to       *)
(* ObjectValue; keys compare by value, without their decoration.           *)
(***************************************************************************)
KeyEq(a, b) == a.t = b.t /\ (IF a.t = "Ident" THEN a.name = b.name ELSE a.expr = b.expr)

HasKey(items, key) == \E i \in 1..Len(items) : KeyEq(items[i].key, key)

\* Object::insert: a new key is appended; the value of a key the map already
\* holds is replaced in place.
ObjectInsert(items, key, value) ==
    IF HasKey(items, key)
    THEN [i \in 1..Len(items) |->
            IF KeyEq(items[i].key, key)
            THEN [key |-> items[i].key, value |-> value]
            ELSE items[i]]
    ELSE Append(items, [key |-> key, value |-> value])

\* object_key that records every key as an expression.
object_key_always_expression(p) ==
    Let(expr(p), LAMBDA e :
        IF ~e.ok THEN e
        ELSE Ok(sp(e.pos),
                IF FALSE
                THEN [t |-> "Ident", name |-> e.val.name,
                      pre |-> NoSpan, suf |-> Span(e.pos, sp(e.pos))]
                ELSE [t |-> "Expression", expr |-> e.val,
                      pre |-> NoSpan, suf |-> Span(e.pos, sp(e.pos))]))

\* suffix_decorated(expr.map(..), sp)
object_key(p) ==
    Let(expr(p), LAMBDA e :
        IF ~e.ok THEN e
        ELSE Ok(sp(e.pos),
                IF e.val.t = "Variable"
                THEN [t |-> "Ident", name |-> e.val.name,
                      pre |-> NoSpan, suf |-> Span(e.pos, sp(e.pos))]
                ELSE [t |-> "Expression", expr |-> e.val,
                      pre |-> NoSpan, suf |-> Span(e.pos, sp(e.pos))]))

object_value_assignment(p) ==
    IF At(p) = EOF THEN Backtrack(p, "object value assignment")
    ELSE IF At(p) = "=" THEN Ok(p + 1, "Equals")
    ELSE IF At(p) = ":" THEN Ok(p + 1, "Colon")
    ELSE Cut(p + 1, "object value assignment")

\* (object_value_assignment, decorated(sp, expr, sp))
object_value(p) ==
    Let(object_value_assignment(p), LAMBDA a :
        IF ~a.ok THEN a
        ELSE Let(sp(a.pos), LAMBDA w :
             Let(expr(w), LAMBDA e :
                 IF ~e.ok THEN e
                 ELSE Ok(sp(e.pos),
                         [expr |-> Dec(e.val, Span(a.pos, w), Span(e.pos, sp(e.pos))),
                          assignment |-> a.val, terminator |-> "None"]))))

\* object_loop with a check that rejects an item whose key the object holds.
object_loop_unique(p, st, items) ==
    Let(ws(p), LAMBDA q :
    Let(Span(p, q), LAMBDA trailing :
        IF At(q) = EOF THEN Backtrack(q, "object item")
        ELSE IF At(q) = "}" THEN Ok(q, on_expr_term(st, Object(items, trailing)))
        ELSE Let(object_key(q), LAMBDA k :
                 IF ~k.ok THEN k
                 ELSE Let(object_value(k.pos), LAMBDA v :
                          IF ~v.ok THEN v
                          ELSE Let([k.val EXCEPT !.pre = trailing], LAMBDA key :
                               Let(v.val, LAMBDA value :
                               Let(At(v.pos), LAMBDA ch :
                                   IF HasKey(items, key) THEN Cut(q, "unique object key")
                                   ELSE IF ch = EOF THEN Backtrack(v.pos, "object item")
                                   ELSE IF ch = "}"
                                   THEN Ok(v.pos, on_expr_term(st,
                                            Object(ObjectInsert(items, key, value), NoSpan)))
                                   ELSE IF ch = "\r"
                                   THEN (IF At(v.pos + 1) = "\n"
                                         THEN object_loop(v.pos + 2, st,
                                                ObjectInsert(items, key,
                                                    [value EXCEPT !.terminator = "Newline"]))
                                         ELSE Backtrack(v.pos, "crlf"))
                                   ELSE IF ch = "\n"
                                   THEN object_loop(v.pos + 1, st,
                                            ObjectInsert(items, key,
                                                [value EXCEPT !.terminator = "Newline"]))
                                   ELSE IF ch = ","
                                   THEN object_loop(v.pos + 1, st,
                                            ObjectInsert(items, key,
                                                [value EXCEPT !.terminator = "Comma"]))
                                   ELSE IF ch \in {"#", "/"}
                                   THEN Let(line_comment(v.pos), LAMBDA c :
                                            IF c < 0 THEN Backtrack(v.pos, "line comment")
                                            ELSE IF line_ending(c) < 0
                                            THEN Backtrack(c, "line ending")
                                            ELSE object_loop(line_ending(c), st,
                                                   ObjectInsert(items, key,
                                                     [value EXCEPT
                                                        !.expr.suf = Span(value.expr.suf[1], c),
                                                        !.terminator = "Newline"])))
                                   ELSE Cut(v.pos, "object item"))))))))

\* One pass of the loop of object_items, with the items inserted so far.
object_loop(p, st, items) ==
    Let(ws(p), LAMBDA q :
    Let(Span(p, q), LAMBDA trailing :
        IF At(q) = EOF THEN Backtrack(q, "object item")
        ELSE IF At(q) = "}" THEN Ok(q, on_expr_term(st, Object(items, trailing)))
        ELSE Let(object_key(q), LAMBDA k :
                 IF ~k.ok THEN k
                 ELSE Let(object_value(k.pos), LAMBDA v :
                          IF ~v.ok THEN v
                          ELSE Let([k.val EXCEPT !.pre = trailing], LAMBDA key :
                               Let(v.val, LAMBDA value :
                               Let(At(v.pos), LAMBDA ch :
                                   IF ch = EOF THEN Backtrack(v.pos, "object item")
                                   ELSE IF ch = "}"
                                   THEN Ok(v.pos, on_expr_term(st,
                                            Object(ObjectInsert(items, key, value), NoSpan)))
                                   ELSE IF ch = "\r"
                                   THEN (IF At(v.pos + 1) = "\n"
                                         THEN object_loop(v.pos + 2, st,
                                                ObjectInsert(items, key,
                                                    [value EXCEPT !.terminator = "Newline"]))
                                         ELSE Backtrack(v.pos, "crlf"))
                                   ELSE IF ch = "\n"
                                   THEN object_loop(v.pos + 1, st,
                                            ObjectInsert(items, key,
                                                [value EXCEPT !.terminator = "Newline"]))
                                   ELSE IF ch = ","
                                   THEN object_loop(v.pos + 1, st,
                                            ObjectInsert(items, key,
                                                [value EXCEPT !.terminator = "Comma"]))
                                   ELSE IF ch \in {"#", "/"}
                                   THEN Let(line_comment(v.pos), LAMBDA c :
                                            IF c < 0 THEN Backtrack(v.pos, "line comment")
                                            ELSE IF line_ending(c) < 0
                                            THEN Backtrack(c, "line ending")
                                            ELSE object_loop(line_ending(c), st,
                                                   ObjectInsert(items, key,
                                                     [value EXCEPT
                                                        !.expr.suf = Span(value.expr.suf[1], c),
                                                        !.terminator = "Newline"])))
                                   ELSE Cut(v.pos, "object item"))))))))

object_items(p, st) == object_loop(p, st, <<>>)

object(p, st) ==
    IF At(p) # "{" THEN Backtrack(p, "{")
    ELSE Let(for_expr_or_items(p + 1, for_object_expr(p + 1, st), object_items(p + 1, st)), LAMBDA r :
             IF ~r.ok THEN r
             ELSE IF At(r.pos) = "}" THEN Ok(r.pos + 1, r.val)
             ELSE Cut(r.pos, "}"))

(***************************************************************************)
(* Identifiers, reserved words and function calls.                         *)
(***************************************************************************)
FuncArgs(args, expand_final, trailing_comma) ==
    [args |-> args, expand_final |-> expand_final, trailing_comma |-> trailing_comma,
     trailing |-> NoSpan, pre |-> NoSpan]

\* decorated(ws, preceded(peek(none_of(",.)")), expr), ws)
func_arg(p) ==
    Let(ws(p), LAMBDA w :
        IF At(w) \in {",", ".", ")", EOF} THEN Backtrack(w, "argument")
        ELSE Let(expr(w), LAMBDA e :
                 IF ~e.ok THEN e
                 ELSE Ok(ws(e.pos), Dec(e.val, Span(p, w), Span(e.pos, ws(e.pos))))))

\* separated1 after its first element.
func_args_more(p, acc) ==
    IF At(p) # "," THEN Ok(p, acc)
    ELSE Let(func_arg(p + 1), LAMBDA e :
             IF e.ok THEN func_args_more(e.pos, Append(acc, e.val))
             ELSE IF e.cut THEN e
             ELSE Ok(p, acc))

\* A trailer that takes `...` after a comma as well.
func_trailer_comma_ellipsis(p) ==
    IF At(p) = "," /\ At(p + 1) = "." /\ At(p + 2) = "." /\ At(p + 3) = "."
    THEN Ok(p + 4, "Ellipsis")
    ELSE IF At(p) = "," THEN Ok(p + 1, "Comma")
    ELSE IF At(p) = "."
    THEN (IF At(p + 1) = "." /\ At(p + 2) = "." THEN Ok(p + 3, "Ellipsis")
          ELSE Cut(p + 1, ".."))
    ELSE Ok(p, "None")

\* The trailer after the last argument: "Comma", "Ellipsis", or "None".
func_trailer(p) ==
    IF At(p) = "," THEN Ok(p + 1, "Comma")
    ELSE IF At(p) = "."
    THEN (IF At(p + 1) = "." /\ At(p + 2) = "." THEN Ok(p + 3, "Ellipsis")
          ELSE Cut(p + 1, ".."))
    ELSE Ok(p, "None")

func_args(p) ==
    IF At(p) # "(" THEN Backtrack(p, "(")
    ELSE Let(func_arg(p + 1), LAMBDA first :
         Let(IF first.ok THEN func_args_more(first.pos, <<first.val>>) ELSE first, LAMBDA args :
         Let(IF args.ok THEN func_trailer(args.pos) ELSE args, LAMBDA trailer :
         \* opt((args, opt(trailer)))
         Let(IF trailer.ok
                     THEN Ok(trailer.pos, FuncArgs(args.val, trailer.val = "Ellipsis",
                                                   trailer.val = "Comma"))
                     ELSE IF trailer.cut THEN trailer
                     ELSE Ok(p + 1, FuncArgs(<<>>, FALSE, FALSE)), LAMBDA list :
             IF ~list.ok THEN list
             ELSE Let(ws(list.pos), LAMBDA w :
                      IF At(w) = ")"
                      THEN Ok(w + 1, [list.val EXCEPT !.trailing = Span(list.pos, w)])
                      ELSE Cut(w, ")"))))))

\* identlike with the reserved words looked at before the argument list.
identlike_reserved_first(p, st) ==
    Let(str_ident(p), LAMBDA i :
        IF ~i.ok THEN i
        ELSE IF i.val = <<"n", "u", "l", "l">>
        THEN Ok(i.pos, on_expr_term(st, [t |-> "Null"] @@ Decor))
        ELSE IF i.val = <<"t", "r", "u", "e">>
        THEN Ok(i.pos, on_expr_term(st, [t |-> "Bool", value |-> TRUE] @@ Decor))
        ELSE IF i.val = <<"f", "a", "l", "s", "e">>
        THEN Ok(i.pos, on_expr_term(st, [t |-> "Bool", value |-> FALSE] @@ Decor))
        ELSE Let(ws(i.pos), LAMBDA w :
             Let(func_args(w), LAMBDA a :
                 IF a.ok
                 THEN Ok(a.pos, on_expr_term(st,
                          FuncCall(i.val, [a.val EXCEPT !.pre = Span(i.pos, w)])))
                 ELSE IF a.cut THEN a
                 ELSE Ok(i.pos, on_expr_term(st, Variable(i.val))))))

\* identlike that looks for the argument list on the line of the identifier.
identlike_same_line(p, st) ==
    Let(str_ident(p), LAMBDA i :
        IF ~i.ok THEN i
        ELSE Let(sp(i.pos), LAMBDA w :
             Let(func_args(w), LAMBDA a :
                 IF a.ok
                 THEN Ok(a.pos, on_expr_term(st,
                          FuncCall(i.val, [a.val EXCEPT !.pre = Span(i.pos, w)])))
                 ELSE IF a.cut THEN a
                 ELSE Ok(i.pos, on_expr_term(st,
                          IF i.val = <<"n", "u", "l", "l">> THEN [t |-> "Null"] @@ Decor
                          ELSE IF i.val = <<"t", "r", "u", "e">>
                          THEN [t |-> "Bool", value |-> TRUE] @@ Decor
                          ELSE IF i.val = <<"f", "a", "l", "s", "e">>
                          THEN [t |-> "Bool", value |-> FALSE] @@ Decor
                          ELSE Variable(i.val))))))

identlike(p, st) ==
    Let(str_ident(p), LAMBDA i :
        IF ~i.ok THEN i
        ELSE Let(ws(i.pos), LAMBDA w :
             Let(func_args(w), LAMBDA a :
                 IF a.ok
                 THEN Ok(a.pos, on_expr_term(st,
                          FuncCall(i.val, [a.val EXCEPT !.pre = Span(i.pos, w)])))
                 ELSE IF a.cut THEN a
                 ELSE Ok(i.pos, on_expr_term(st,
                          IF i.val = <<"n", "u", "l", "l">> THEN [t |-> "Null"] @@ Decor
                          ELSE IF i.val = <<"t", "r", "u", "e">>
                          THEN [t |-> "Bool", value |-> TRUE] @@ Decor
                          ELSE IF i.val = <<"f", "a", "l", "s", "e">>
                          THEN [t |-> "Bool", value |-> FALSE] @@ Decor
                          ELSE Variable(i.val))))))

(***************************************************************************)
(* BodyParseState: the attribute keys seen in this body, the structure in  *)
(* progress, the finished structures and the pending whitespace.           *)
(***************************************************************************)
DefaultBodyState == [attribute_keys |-> {}, current |-> None, structures |-> <<>>,
                     ws |-> NoSpan]

is_redefined(st, key) == key \in st.attribute_keys

remember_key(st, key) == [st EXCEPT !.attribute_keys = @ \cup {key}]

on_structure(st, structure) ==
    [st EXCEPT !.current = [structure EXCEPT !.pre = st.ws], !.ws = NoSpan]

on_line_ending(st) ==
    [st EXCEPT !.structures = Append(@, [st.current EXCEPT !.suf = st.ws]),
               !.current = None, !.ws = NoSpan]

into_body(st) ==
    [t |-> "Body", structures |-> st.structures, prefer_oneline |-> FALSE] @@ Decor

Attribute(key, value) == [t |-> "Attribute", key |-> key, value |-> value] @@ Decor

Block(ident, labels, body) ==
    [t |-> "Block", ident |-> ident, labels |-> labels, body |-> body] @@ Decor

\* A failure of a parser that works on the body state: the state it leaves.
Fail(r, st) == [ok |-> FALSE, cut |-> r.cut, pos |-> r.pos, msg |-> r.msg, st |-> st]

Redefined == "unique attribute key; found redefined attribute"

(***************************************************************************)
(* Structure parser (structure.rs).                                        *)
(***************************************************************************)
RECURSIVE body(_), body_loop(_, _), structure(_, _), block_body(_)

\* preceded(cut_char('='), prefix_decorated(sp, expr))
attribute_expr(p) ==
    IF At(p) # "=" THEN Cut(p, "=")
    ELSE Let(sp(p + 1), LAMBDA w :
         Let(expr(w), LAMBDA e :
             IF ~e.ok THEN e ELSE Ok(e.pos, [e.val EXCEPT !.pre = Span(p + 1, w)])))

\* repeat(0.., suffix_decorated(block_label, sp)); labels are identifiers.
RECURSIVE block_labels(_, _)
block_labels(p, acc) ==
    Let(str_ident(p), LAMBDA i :
        IF ~i.ok THEN Ok(p, acc)
        ELSE block_labels(sp(i.pos),
                 Append(acc, [name |-> i.val, pre |-> NoSpan, suf |-> Span(i.pos, sp(i.pos))])))

\* The attribute of a one-line block: decorated(sp, attribute, sp), or none.
oneline_attribute(p) ==
    Let(sp(p), LAMBDA w :
    Let(str_ident(w), LAMBDA i :
        IF ~i.ok THEN Ok(p, None)
        ELSE Let(attribute_expr(sp(i.pos)), LAMBDA e :
                 IF e.ok
                 THEN Ok(sp(e.pos),
                         Dec(Attribute([name |-> i.val, pre |-> NoSpan,
                                        suf |-> Span(i.pos, sp(i.pos))], e.val),
                             Span(p, w), Span(e.pos, sp(e.pos))))
                 ELSE IF e.cut THEN e
                 ELSE Ok(p, None))))

\* block_body that sets prefer_oneline on the bodies of both alternatives.
block_body_always_oneline(p) ==
    IF At(p) # "{" THEN Cut(p, "{")
    ELSE Let(opt_line_comment(sp(p + 1)), LAMBDA c :
         Let(IF line_ending(c) >= 0
                THEN \* Multiline block.
                     Let(body(line_ending(c)), LAMBDA b :
                         IF b.ok THEN Ok(b.pos, [b.val EXCEPT !.pre = Span(p + 1, c),
                                                            !.prefer_oneline = TRUE])
                         ELSE b)
                ELSE \* One-line block.
                     Let(oneline_attribute(p + 1), LAMBDA a :
                         IF ~a.ok THEN a
                         ELSE Ok(sp(a.pos),
                                 [t |-> "Body",
                                  structures |-> IF a.val = None THEN <<>> ELSE <<a.val>>,
                                  prefer_oneline |-> TRUE,
                                  pre |-> NoSpan, suf |-> Span(a.pos, sp(a.pos))])), LAMBDA inner :
             IF ~inner.ok THEN inner
             ELSE IF At(inner.pos) = "}" THEN Ok(inner.pos + 1, inner.val)
             ELSE Cut(inner.pos, "}")))

block_body(p) ==
    IF At(p) # "{" THEN Cut(p, "{")
    ELSE Let(opt_line_comment(sp(p + 1)), LAMBDA c :
         Let(IF line_ending(c) >= 0
                THEN \* Multiline block.
                     Let(body(line_ending(c)), LAMBDA b :
                         IF b.ok THEN Ok(b.pos, [b.val EXCEPT !.pre = Span(p + 1, c)]) ELSE b)
                ELSE \* One-line block.
                     Let(oneline_attribute(p + 1), LAMBDA a :
                         IF ~a.ok THEN a
                         ELSE Ok(sp(a.pos),
                                 [t |-> "Body",
                                  structures |-> IF a.val = None THEN <<>> ELSE <<a.val>>,
                                  prefer_oneline |-> TRUE,
                                  pre |-> NoSpan, suf |-> Span(a.pos, sp(a.pos))])), LAMBDA inner :
             IF ~inner.ok THEN inner
             ELSE IF At(inner.pos) = "}" THEN Ok(inner.pos + 1, inner.val)
             ELSE Cut(inner.pos, "}")))

\* structure without the check for a redefined attribute key.
structure_unchecked(p, st) ==
    IF ~is_id_start(At(p)) THEN Fail(Backtrack(p, "identifier"), st)
    ELSE Let(str_ident(p), LAMBDA i :
         Let(sp(i.pos), LAMBDA q :
         Let([name |-> i.val, pre |-> NoSpan, suf |-> Span(i.pos, q)], LAMBDA key :
         Let(At(q), LAMBDA ch :
             IF ch = EOF THEN Fail(Backtrack(q, "structure"), st)
             ELSE IF ch = "="
             THEN Let(attribute_expr(q), LAMBDA e :
                      IF ~e.ok THEN Fail(e, remember_key(st, i.val))
                      ELSE Ok(e.pos, on_structure(remember_key(st, i.val),
                                                  Attribute(key, e.val))))
             ELSE IF ch = "{"
             THEN Let(block_body(q), LAMBDA b :
                      IF ~b.ok THEN Fail(b, st)
                      ELSE Ok(b.pos, on_structure(st, Block(key, <<>>, b.val))))
             ELSE IF is_id_start(ch)
             THEN Let(block_labels(q, <<>>), LAMBDA l :
                  Let(block_body(l.pos), LAMBDA b :
                      IF ~b.ok THEN Fail(b, st)
                      ELSE Ok(b.pos, on_structure(st, Block(key, l.val, b.val)))))
             ELSE Fail(Cut(q, "structure"), st)))))

\* structure with the identifier of a block kept among the attribute keys.
structure_keeps_block_ident(p, st) ==
    IF ~is_id_start(At(p)) THEN Fail(Backtrack(p, "identifier"), st)
    ELSE Let(str_ident(p), LAMBDA i :
         Let(sp(i.pos), LAMBDA q :
         Let([name |-> i.val, pre |-> NoSpan, suf |-> Span(i.pos, q)], LAMBDA key :
         Let(At(q), LAMBDA ch :
             IF ch = EOF THEN Fail(Backtrack(q, "structure"), st)
             ELSE IF ch = "="
             THEN IF is_redefined(st, i.val)
                  THEN Fail(Cut(q, Redefined), st)
                  ELSE Let(attribute_expr(q), LAMBDA e :
                           IF ~e.ok THEN Fail(e, remember_key(st, i.val))
                           ELSE Ok(e.pos, on_structure(remember_key(st, i.val),
                                                       Attribute(key, e.val))))
             ELSE IF ch = "{"
             THEN Let(block_body(q), LAMBDA b :
                      IF ~b.ok THEN Fail(b, st)
                      ELSE Ok(b.pos, on_structure(remember_key(st, i.val),
                                                  Block(key, <<>>, b.val))))
             ELSE IF is_id_start(ch)
             THEN Let(block_labels(q, <<>>), LAMBDA l :
                  Let(block_body(l.pos), LAMBDA b :
                      IF ~b.ok THEN Fail(b, st)
                      ELSE Ok(b.pos, on_structure(remember_key(st, i.val),
                                                  Block(key, l.val, b.val)))))
             ELSE Fail(Cut(q, "structure"), st)))))

structure(p, st) ==
    IF ~is_id_start(At(p)) THEN Fail(Backtrack(p, "identifier"), st)
    ELSE Let(str_ident(p), LAMBDA i :
         Let(sp(i.pos), LAMBDA q :
         Let([name |-> i.val, pre |-> NoSpan, suf |-> Span(i.pos, q)], LAMBDA key :
         Let(At(q), LAMBDA ch :
             IF ch = EOF THEN Fail(Backtrack(q, "structure"), st)
             ELSE IF ch = "="
             THEN IF is_redefined(st, i.val)
                  THEN Fail(Cut(q, Redefined), st)
                  ELSE Let(attribute_expr(q), LAMBDA e :
                           IF ~e.ok THEN Fail(e, remember_key(st, i.val))
                           ELSE Ok(e.pos, on_structure(remember_key(st, i.val),
                                                       Attribute(key, e.val))))
             ELSE IF ch = "{"
             THEN Let(block_body(q), LAMBDA b :
                      IF ~b.ok THEN Fail(b, st)
                      ELSE Ok(b.pos, on_structure(st, Block(key, <<>>, b.val))))
             ELSE IF is_id_start(ch)
             THEN Let(block_labels(q, <<>>), LAMBDA l :
                  Let(block_body(l.pos), LAMBDA b :
                      IF ~b.ok THEN Fail(b, st)
                      ELSE Ok(b.pos, on_structure(st, Block(key, l.val, b.val)))))
             ELSE Fail(Cut(q, "structure"), st)))))

\* body_loop with the line ending after a structure optional.
body_loop_no_terminator(p, st) ==
    Let(ws(p), LAMBDA w :
    Let(structure(w, on_ws(st, Span(p, w))), LAMBDA s :
        IF ~s.ok THEN (IF s.cut THEN s ELSE Ok(p, s.st))
        ELSE Let(opt_line_comment(sp(s.pos)), LAMBDA c :
             Let(on_ws(s.val, Span(s.pos, c)), LAMBDA st2 :
                 IF line_ending(c) >= 0 THEN body_loop(line_ending(c), on_line_ending(st2))
                 ELSE IF At(c) = EOF THEN body_loop(c, on_line_ending(st2))
                 ELSE body_loop(c, on_line_ending(st2))))))

\* One pass of repeat(0.., ..) in body.
body_loop(p, st) ==
    Let(ws(p), LAMBDA w :
    Let(structure(w, on_ws(st, Span(p, w))), LAMBDA s :
        IF ~s.ok THEN (IF s.cut THEN s ELSE Ok(p, s.st))
        ELSE Let(opt_line_comment(sp(s.pos)), LAMBDA c :
             Let(on_ws(s.val, Span(s.pos, c)), LAMBDA st2 :
                 IF line_ending(c) >= 0 THEN body_loop(line_ending(c), on_line_ending(st2))
                 ELSE IF At(c) = EOF THEN body_loop(c, on_line_ending(st2))
                 ELSE Fail(Cut(c, "newline or eof"), st2)))))

body(p) ==
    Let(body_loop(p, DefaultBodyState), LAMBDA r :
        IF ~r.ok THEN Cut(r.pos, r.msg)
        ELSE Ok(ws(r.pos), [into_body(r.val) EXCEPT !.suf = Span(r.pos, ws(r.pos))]))

(***************************************************************************)
(* Entry points (mod.rs).                                                  *)
(***************************************************************************)
\* The Error built from a failed parse: its offset is the offset of the
\* stream when the parse failed.
from_parse_error(r) == [ok |-> FALSE, offset |-> r.pos, msg |-> r.msg]

\* parse_complete without eof: the result of the parser alone.
parse_complete_no_eof(r) ==
    IF ~r.ok THEN from_parse_error(r) ELSE [ok |-> TRUE, tree |-> r.val]

\* terminated(parser, eof)
parse_complete(r) ==
    IF ~r.ok THEN from_parse_error(r)
    ELSE IF At(r.pos) # EOF THEN from_parse_error(Backtrack(r.pos, "eof"))
    ELSE [ok |-> TRUE, tree |-> r.val]

parse_body == parse_complete(body(0))

parse_expr == parse_complete(expr(0))

(***************************************************************************)
(* Rendering.  despan replaces every recorded range by the input text it   *)
(* covers; the encoder then writes, for each node, its prefix, its tokens  *)
(* and children in order, and its suffix.                                  *)
(***************************************************************************)
Raw(span) == IF span = NoSpan THEN <<>> ELSE Slice(span[1], span[2])

OpSym(op) ==
    CASE op = "Neg" -> <<"-">>
      [] op = "Not" -> <<"!">>
      [] op = "Eq" -> <<"=", "=">>
      [] op = "NotEq" -> <<"!", "=">>
      [] op = "LessEq" -> <<"<", "=">>
      [] op = "Less" -> <<"<">>
      [] op = "GreaterEq" -> <<">", "=">>
      [] op = "Greater" -> <<">">>
      [] op = "Plus" -> <<"+">>
      [] op = "Minus" -> <<"-">>
      [] op = "Mul" -> <<"*">>
      [] op = "Div" -> <<"/">>
      [] op = "Mod" -> <<"%">>
      [] op = "And" -> <<"&", "&">>
      [] op = "Or" -> <<"|", "|">>

RECURSIVE render_expr(_), render_term(_), render_list(_, _), render_ops(_),
          render_items(_), render_body(_), render_structures(_), render_structure(_),
          render_template(_), render_directive(_)

Wrap(node, text) == Raw(node.pre) \o text \o Raw(node.suf)

render_ident(i) == Wrap(i, i.name)

\* The expressions of a list, separated by commas.
render_list(es, i) ==
    IF i > Len(es) THEN <<>>
    ELSE render_expr(es[i]) \o (IF i < Len(es) THEN <<",">> ELSE <<>>) \o render_list(es, i + 1)

render_ops(ops) ==
    IF ops = <<>> THEN <<>>
    ELSE Let(ops[1], LAMBDA o :
         Let(IF o.t = "GetAttr" THEN <<".">> \o Raw(o.ipre) \o o.value
                      ELSE IF o.t = "LegacyIndex" THEN <<".">> \o Raw(o.ipre) \o o.value
                      ELSE IF o.t = "AttrSplat" THEN <<".">> \o Raw(o.ipre) \o <<"*">>
                      ELSE IF o.t = "FullSplat"
                      THEN <<"[">> \o Raw(o.ipre) \o <<"*">> \o Raw(o.isuf) \o <<"]">>
                      ELSE <<"[">> \o Raw(o.ipre) \o render_expr(o.value) \o Raw(o.isuf)
                           \o <<"]">>, LAMBDA inner :
             Raw(o.pre) \o inner \o render_ops(Tail(ops))))

render_items(items) ==
    IF items = <<>> THEN <<>>
    ELSE Let(items[1], LAMBDA it :
         Let(IF it.key.t = "Ident" THEN it.key.name ELSE render_expr(it.key.expr), LAMBDA key :
         Let(IF it.value.terminator = "Comma" THEN <<",">>
                     ELSE IF it.value.terminator = "Newline" THEN <<"\n">>
                     ELSE <<>>, LAMBDA term :
             Wrap(it.key, key)
             \o (IF it.value.assignment = "Equals" THEN <<"=">> ELSE <<":">>)
             \o render_expr(it.value.expr) \o term \o render_items(Tail(items)))))

render_for(e) ==
    Let(e.intro, LAMBDA i :
    Let(Raw(i.pre) \o <<"f", "o", "r">>
                 \o (IF i.key_var = None THEN <<>> ELSE render_ident(i.key_var) \o <<",">>)
                 \o render_ident(i.value_var) \o <<"i", "n">> \o render_expr(i.collection)
                 \o <<":">>, LAMBDA intro :
    Let(IF e.cond = None THEN <<>>
                ELSE Raw(e.cond.pre) \o <<"i", "f">> \o render_expr(e.cond.expr), LAMBDA cond :
        IF e.key_expr = None
        THEN <<"[">> \o intro \o render_expr(e.value_expr) \o cond \o <<"]">>
        ELSE <<"{">> \o intro \o render_expr(e.key_expr) \o <<"=", ">">>
             \o render_expr(e.value_expr)
             \o (IF e.grouping THEN <<".", ".", ".">> ELSE <<>>) \o cond \o <<"}">>)))

\* A directive tag: `%{`, the keyword with what follows it, `}`.
render_tag(pre, text) == <<"%", "{">> \o Raw(pre) \o text \o <<"}">>

render_directive(d) ==
    IF d.t = "If"
    THEN render_tag(d.if_expr.pre, <<"i", "f">> \o render_expr(d.if_expr.cond_expr))
         \o render_template(d.if_expr.template)
         \o (IF d.else_expr = None THEN <<>>
             ELSE render_tag(d.else_expr.pre, <<"e", "l", "s", "e">> \o Raw(d.else_expr.suf))
                  \o render_template(d.else_expr.template))
         \o render_tag(d.endif_expr.pre, <<"e", "n", "d", "i", "f">> \o Raw(d.endif_expr.suf))
    ELSE render_tag(d.for_expr.pre,
                    <<"f", "o", "r">>
                    \o (IF d.for_expr.key_var = None THEN <<>>
                        ELSE render_ident(d.for_expr.key_var) \o <<",">>)
                    \o render_ident(d.for_expr.value_var) \o <<"i", "n">>
                    \o render_expr(d.for_expr.collection_expr))
         \o render_template(d.for_expr.template)
         \o render_tag(d.endfor_expr.pre,
                       <<"e", "n", "d", "f", "o", "r">> \o Raw(d.endfor_expr.suf))

render_template(tpl) ==
    LET text[i \in 0..Len(tpl.elements)] ==
            IF i = 0 THEN <<>>
            ELSE text[i - 1] \o
                 (CASE tpl.elements[i].t = "Literal" -> Raw(tpl.elements[i].span)
                    [] tpl.elements[i].t = "Interpolation" ->
                          <<"$", "{">> \o render_expr(tpl.elements[i].expr) \o <<"}">>
                    [] tpl.elements[i].t = "Directive" ->
                          render_directive(tpl.elements[i].directive))
    IN  text[Len(tpl.elements)]

render_term(e) ==
    CASE e.t = "Number" -> e.repr
      [] e.t = "String" -> <<"\"">> \o e.value \o <<"\"">>
      [] e.t = "Template" -> <<"\"">> \o render_template(e) \o <<"\"">>
      [] e.t = "Variable" -> e.name
      [] e.t = "Null" -> <<"n", "u", "l", "l">>
      [] e.t = "Bool" -> IF e.value THEN <<"t", "r", "u", "e">> ELSE <<"f", "a", "l", "s", "e">>
      [] e.t = "UnaryOp" -> OpSym(e.op) \o render_expr(e.expr)
      [] e.t = "BinaryOp" -> render_expr(e.lhs) \o OpSym(e.op) \o render_expr(e.rhs)
      [] e.t = "Conditional" ->
            render_expr(e.cond) \o <<"?">> \o render_expr(e.true) \o <<":">>
            \o render_expr(e.false)
      [] e.t = "Traversal" -> render_expr(e.expr) \o render_ops(e.ops)
      [] e.t = "Array" ->
            <<"[">> \o render_list(e.values, 1)
            \o (IF e.trailing_comma THEN <<",">> ELSE <<>>) \o Raw(e.trailing) \o <<"]">>
      [] e.t = "Object" -> <<"{">> \o render_items(e.items) \o Raw(e.trailing) \o <<"}">>
      [] e.t = "Parenthesis" -> <<"(">> \o render_expr(e.inner) \o <<")">>
      [] e.t = "FuncCall" ->
            e.name \o Raw(e.args.pre) \o <<"(">> \o render_list(e.args.args, 1)
            \o (IF e.args.expand_final THEN <<".", ".", ".">>
                ELSE IF e.args.trailing_comma THEN <<",">> ELSE <<>>)
            \o Raw(e.args.trailing) \o <<")">>
      [] e.t = "ForExpr" -> render_for(e)

render_expr(e) == Wrap(e, render_term(e))

render_structure(s) ==
    IF s.t = "Attribute"
    THEN Wrap(s, render_ident(s.key) \o <<"=">> \o render_expr(s.value))
    ELSE LET labels[i \in 0..Len(s.labels)] ==
                IF i = 0 THEN <<>> ELSE labels[i - 1] \o render_ident(s.labels[i])
             b == s.body
             inner == IF b.prefer_oneline
                      THEN render_structures(b.structures) \o Raw(b.suf)
                      ELSE Raw(b.pre) \o <<"\n">> \o render_body(b)
         IN  Wrap(s, render_ident(s.ident) \o labels[Len(s.labels)] \o <<"{">> \o inner
                     \o <<"}">>)

\* The attribute of a one-line body, if any.
render_structures(ss) ==
    IF ss = <<>> THEN <<>>
    ELSE render_structure(ss[1]) \o render_structures(Tail(ss))

render_body(b) ==
    LET lines[i \in 0..Len(b.structures)] ==
            IF i = 0 THEN <<>>
            ELSE lines[i - 1] \o render_structure(b.structures[i]) \o <<"\n">>
    IN  lines[Len(b.structures)] \o Raw(b.suf)

(***************************************************************************)
(* The visitor (visit_mut.rs).  A node is named by its path from the root: *)
(* the fields, and the indices within them, that lead to it.  The visitor  *)
(* v records every call of one of its hooks with the path of the node and  *)
(* then does what the hook does by default; a free function visit_x_mut    *)
(* gives the calls made while it runs, in the order they are made.         *)
(***************************************************************************)
Child(path, field, i) == Append(path, [f |-> field, i |-> i])

\* A hook whose default does nothing.
Call(hook, path) == <<[hook |-> hook, path |-> path]>>

\* A hook whose default is the free function of the same name.
Hook(hook, path, default) == Call(hook, path) \o default

\* for x in node.iter_mut() { v.visit(x) }
ForEach(n, visit(_)) ==
    LET calls_upto[i \in 0..n] == IF i = 0 THEN <<>> ELSE calls_upto[i - 1] \o visit(i)
    IN  calls_upto[n]

RECURSIVE visit_body_mut(_, _), visit_structure_mut(_, _), visit_attr_mut(_, _),
          visit_block_mut(_, _), visit_block_body_mut(_, _), visit_oneline_body_mut(_, _),
          visit_expr_mut(_, _), visit_array_mut(_, _), visit_object_mut(_, _),
          visit_object_item_mut(_, _), visit_object_value_mut(_, _),
          visit_parenthesis_mut(_, _), visit_conditional_mut(_, _),
          visit_unary_op_mut(_, _), visit_binary_op_mut(_, _), visit_traversal_mut(_, _),
          visit_traversal_operator_mut(_, _), visit_func_call_mut(_, _),
          visit_func_args_mut(_, _), visit_for_expr_mut(_, _), visit_for_intro_mut(_, _),
          visit_for_cond_mut(_, _), visit_string_template_mut(_, _),
          visit_template_mut(_, _), visit_element_mut(_, _), visit_interpolation_mut(_, _),
          visit_directive_mut(_, _), visit_if_directive_mut(_, _),
          visit_for_directive_mut(_, _), visit_if_template_expr_mut(_, _),
          visit_else_template_expr_mut(_, _), visit_for_template_expr_mut(_, _)

\* v.visit_expr_mut(expr), v.visit_ident_mut(ident), v.visit_template_mut(t)
v_visit_expr_mut(path, node) == Hook("visit_expr_mut", path, visit_expr_mut(path, node))

v_visit_ident_mut(path) == Call("visit_ident_mut", path)

v_visit_template_mut(path, node) ==
    Hook("visit_template_mut", path, visit_template_mut(path, node))

visit_body_mut(path, node) ==
    ForEach(Len(node.structures), LAMBDA i :
        Hook("visit_structure_mut", Child(path, "structures", i),
             visit_structure_mut(Child(path, "structures", i), node.structures[i])))

visit_structure_mut(path, node) ==
    IF node.t = "Attribute" THEN Hook("visit_attr_mut", path, visit_attr_mut(path, node))
    ELSE Hook("visit_block_mut", path, visit_block_mut(path, node))

visit_attr_mut(path, node) ==
    v_visit_ident_mut(Child(path, "key", 0))
    \o v_visit_expr_mut(Child(path, "value", 0), node.value)

\* A label is an identifier here: BlockLabel::Ident.
visit_block_label_mut(path, node) == v_visit_ident_mut(path)

visit_block_mut(path, node) ==
    v_visit_ident_mut(Child(path, "ident", 0))
    \o ForEach(Len(node.labels), LAMBDA i :
           Hook("visit_block_label_mut", Child(path, "labels", i),
                visit_block_label_mut(Child(path, "labels", i), node.labels[i])))
    \o Hook("visit_block_body_mut", Child(path, "body", 0),
            visit_block_body_mut(Child(path, "body", 0), node.body))

\* BlockBody::Oneline is the body of a block written on one line.
visit_block_body_mut(path, node) ==
    IF node.prefer_oneline
    THEN Hook("visit_oneline_body_mut", path, visit_oneline_body_mut(path, node))
    ELSE Hook("visit_body_mut", path, visit_body_mut(path, node))

visit_oneline_body_mut(path, node) ==
    IF node.structures # <<>>
    THEN Hook("visit_attr_mut", Child(path, "structures", 1),
              visit_attr_mut(Child(path, "structures", 1), node.structures[1]))
    ELSE <<>>

visit_expr_mut(path, node) ==
    CASE node.t = "Null" -> Call("visit_null_mut", path)
      [] node.t = "Bool" -> Call("visit_bool_mut", path)
      [] node.t = "Number" -> Call("visit_number_mut", path)
      [] node.t = "String" -> Call("visit_string_mut", path)
      [] node.t = "Array" -> Hook("visit_array_mut", path, visit_array_mut(path, node))
      [] node.t = "Object" -> Hook("visit_object_mut", path, visit_object_mut(path, node))
      [] node.t = "Template" ->
            Hook("visit_string_template_mut", path, visit_string_template_mut(path, node))
      [] node.t = "Parenthesis" ->
            Hook("visit_parenthesis_mut", path, visit_parenthesis_mut(path, node))
      [] node.t = "Variable" -> v_visit_ident_mut(path)
      [] node.t = "ForExpr" -> Hook("visit_for_expr_mut", path, visit_for_expr_mut(path, node))
      [] node.t = "Conditional" ->
            Hook("visit_conditional_mut", path, visit_conditional_mut(path, node))
      [] node.t = "FuncCall" ->
            Hook("visit_func_call_mut", path, visit_func_call_mut(path, node))
      [] node.t = "UnaryOp" -> Hook("visit_unary_op_mut", path, visit_unary_op_mut(path, node))
      [] node.t = "BinaryOp" ->
            Hook("visit_binary_op_mut", path, visit_binary_op_mut(path, node))
      [] node.t = "Traversal" ->
            Hook("visit_traversal_mut", path, visit_traversal_mut(path, node))

visit_array_mut(path, node) ==
    ForEach(Len(node.values), LAMBDA i :
        v_visit_expr_mut(Child(path, "values", i), node.values[i]))

visit_object_mut(path, node) ==
    ForEach(Len(node.items), LAMBDA i :
        Hook("visit_object_item_mut", Child(path, "items", i),
             visit_object_item_mut(Child(path, "items", i), node.items[i])))

\* The hook visit_object_key_mut does nothing by default.
visit_object_item_mut(path, node) ==
    Call("visit_object_key_mut", Child(path, "key", 0))
    \o Hook("visit_object_value_mut", Child(path, "value", 0),
            visit_object_value_mut(Child(path, "value", 0), node.value))

visit_object_value_mut(path, node) == v_visit_expr_mut(Child(path, "expr", 0), node.expr)

visit_parenthesis_mut(path, node) == v_visit_expr_mut(Child(path, "inner", 0), node.inner)

visit_conditional_mut(path, node) ==
    v_visit_expr_mut(Child(path, "cond_expr", 0), node.cond)
    \o v_visit_expr_mut(Child(path, "true_expr", 0), node.true)
    \o v_visit_expr_mut(Child(path, "false_expr", 0), node.false)

visit_unary_op_mut(path, node) ==
    Call("visit_unary_operator_mut", Child(path, "operator", 0))
    \o v_visit_expr_mut(Child(path, "expr", 0), node.expr)

\* visit_binary_op_mut with the operator visited first.
visit_binary_op_mut_operator_first(path, node) ==
    Call("visit_binary_operator_mut", Child(path, "operator", 0))
    \o v_visit_expr_mut(Child(path, "lhs_expr", 0), node.lhs)
    \o v_visit_expr_mut(Child(path, "rhs_expr", 0), node.rhs)

visit_binary_op_mut(path, node) ==
    v_visit_expr_mut(Child(path, "lhs_expr", 0), node.lhs)
    \o Call("visit_binary_operator_mut", Child(path, "operator", 0))
    \o v_visit_expr_mut(Child(path, "rhs_expr", 0), node.rhs)

visit_traversal_mut(path, node) ==
    v_visit_expr_mut(Child(path, "expr", 0), node.expr)
    \o ForEach(Len(node.ops), LAMBDA i :
           Hook("visit_traversal_operator_mut", Child(path, "operators", i),
                visit_traversal_operator_mut(Child(path, "operators", i), node.ops[i])))

visit_traversal_operator_mut(path, node) ==
    CASE node.t \in {"AttrSplat", "FullSplat"} -> Call("visit_splat_mut", path)
      [] node.t = "GetAttr" -> v_visit_ident_mut(path)
      [] node.t = "Index" -> v_visit_expr_mut(path, node.value)
      [] node.t = "LegacyIndex" -> Call("visit_u64_mut", path)

visit_func_call_mut(path, node) ==
    v_visit_ident_mut(Child(path, "ident", 0))
    \o Hook("visit_func_args_mut", Child(path, "args", 0),
            visit_func_args_mut(Child(path, "args", 0), node.args))

visit_func_args_mut(path, node) ==
    ForEach(Len(node.args), LAMBDA i : v_visit_expr_mut(Child(path, "args", i), node.args[i]))

visit_for_expr_mut(path, node) ==
    Hook("visit_for_intro_mut", Child(path, "intro", 0),
         visit_for_intro_mut(Child(path, "intro", 0), node.intro))
    \o (IF node.key_expr # None THEN v_visit_expr_mut(Child(path, "key_expr", 0), node.key_expr)
        ELSE <<>>)
    \o v_visit_expr_mut(Child(path, "value_expr", 0), node.value_expr)
    \o (IF node.cond # None
        THEN Hook("visit_for_cond_mut", Child(path, "cond", 0),
                  visit_for_cond_mut(Child(path, "cond", 0), node.cond))
        ELSE <<>>)

visit_for_intro_mut(path, node) ==
    (IF node.key_var # None THEN v_visit_ident_mut(Child(path, "key_var", 0)) ELSE <<>>)
    \o v_visit_ident_mut(Child(path, "value_var", 0))
    \o v_visit_expr_mut(Child(path, "collection_expr", 0), node.collection)

visit_for_cond_mut(path, node) == v_visit_expr_mut(Child(path, "expr", 0), node.expr)

visit_string_template_mut(path, node) ==
    ForEach(Len(node.elements), LAMBDA i :
        Hook("visit_element_mut", Child(path, "elements", i),
             visit_element_mut(Child(path, "elements", i), node.elements[i])))

visit_template_mut(path, node) ==
    ForEach(Len(node.elements), LAMBDA i :
        Hook("visit_element_mut", Child(path, "elements", i),
             visit_element_mut(Child(path, "elements", i), node.elements[i])))

visit_element_mut(path, node) ==
    CASE node.t = "Literal" -> Call("visit_literal_mut", path)
      [] node.t = "Interpolation" ->
            Hook("visit_interpolation_mut", path, visit_interpolation_mut(path, node))
      [] node.t = "Directive" ->
            Hook("visit_directive_mut", path, visit_directive_mut(path, node))

visit_interpolation_mut(path, node) == v_visit_expr_mut(Child(path, "expr", 0), node.expr)

visit_directive_mut(path, node) ==
    IF node.directive.t = "If"
    THEN Hook("visit_if_directive_mut", path, visit_if_directive_mut(path, node.directive))
    ELSE Hook("visit_for_directive_mut", path, visit_for_directive_mut(path, node.directive))

visit_if_directive_mut(path, node) ==
    Hook("visit_if_template_expr_mut", Child(path, "if_expr", 0),
         visit_if_template_expr_mut(Child(path, "if_expr", 0), node.if_expr))
    \o (IF node.else_expr # None
        THEN Hook("visit_else_template_expr_mut", Child(path, "else_expr", 0),
                  visit_else_template_expr_mut(Child(path, "else_expr", 0), node.else_expr))
        ELSE <<>>)
    \o Call("visit_endif_template_expr_mut", Child(path, "endif_expr", 0))

visit_for_directive_mut(path, node) ==
    Hook("visit_for_template_expr_mut", Child(path, "for_expr", 0),
         visit_for_template_expr_mut(Child(path, "for_expr", 0), node.for_expr))
    \o Call("visit_endfor_template_expr_mut", Child(path, "endfor_expr", 0))

visit_if_template_expr_mut(path, node) ==
    v_visit_expr_mut(Child(path, "cond_expr", 0), node.cond_expr)
    \o v_visit_template_mut(Child(path, "template", 0), node.template)

visit_else_template_expr_mut(path, node) ==
    v_visit_template_mut(Child(path, "template", 0), node.template)

visit_for_template_expr_mut(path, node) ==
    (IF node.key_var # None THEN v_visit_ident_mut(Child(path, "key_var", 0)) ELSE <<>>)
    \o v_visit_ident_mut(Child(path, "value_var", 0))
    \o v_visit_template_mut(Child(path, "template", 0), node.template)

(***************************************************************************)
(* Inputs.  The texts given to the entry points are built from fragments: *)
(* operands and what may follow them, call arguments, object items with    *)
(* their terminators, the structures of a body with their line endings.    *)
(***************************************************************************)
\* Left operands, operators and what follows them, right operands.
LTerms ==
    {<<"a">>, <<"1">>, <<"a", ".", "b">>, <<"a", "[", "0", "]">>, <<"-", " ", "1">>,
     <<"(", "a", ")">>}

Mid ==
    {<<>>, <<" ">>, <<"+">>, <<" ", "+", " ">>, <<"/">>, <<" ", "/", " ">>,
     <<" ", "-">>, <<"=", "=">>, <<"!", "=">>, <<"&", "&">>, <<">">>, <<"?", "b", ":">>,
     <<" ", "?", " ", "b", " ", ":", " ">>, <<"/", "*", "c", "*", "/", "+">>,
     <<" ", "/", "*", "c", "*", "/", " ", "+", " ">>, <<"/", "/", "c", "\n">>,
     <<".", ".", ".">>, <<".", "b">>, <<" ", ".", " ", " ", "b">>, <<"[", "0", "]">>,
     <<"=">>, <<"!">>, <<"#", "c">>}

RTerms ==
    {<<>>, <<"b">>, <<"1">>}

\* Negative numbers and unary operations.
UnaryInputs ==
    {<<"-", "1">>, <<"-", " ", "1">>, <<"-", "\t", "1">>, <<"-", "a">>,
     <<"-", " ", "a">>, <<"!", "a">>, <<"!", " ", "a">>, <<"-", "a", ".", "b">>,
     <<"-", " ", "1", ".", "b">>, <<"-", "(", "a", ")">>,
     <<"-", "1", " ", "+", " ", "1">>, <<"-", " ", "1", " ", "-", " ", "1">>,
     <<"a", " ", "-", " ", "1">>, <<"a", " ", "-", "1">>, <<"a", "-", "1">>, <<"-">>,
     <<"-", " ">>, <<"!">>, <<"-", "1", ".", "2">>, <<"-", " ", "1", ".", "2">>, <<"1">>}

ChainTerms ==
    {<<"a">>, <<"1">>}

ChainOps ==
    {<<"+">>, <<" ", "*", " ">>, <<"=", "=">>, <<" ", "-", " ">>, <<"/">>}

\* Function calls: name and (, arguments, trailer, ).
ArgSet ==
    {<<"a">>, <<"a", ".", "b">>, <<"a", "[", "0", "]">>, <<" ", "1", " ">>}

CallOpen ==
    {<<"f", "(">>, <<"f", " ", "(">>}

Trailers ==
    {<<>>, <<",">>, <<".", ".", ".">>, <<".", ".", ".", ",">>, <<",", ".", ".", ".">>,
     <<" ", ".", ".", ".">>}

\* Arrays.
ElemSet ==
    {<<"1">>, <<" ", "a", " ">>}

ArrayTails ==
    {<<>>, <<",">>, <<" ">>, <<",", " ">>}

\* Objects: items with their terminators, and the last item.
ItemSet ==
    {<<"a", "=", "1", ",">>, <<"a", "=", "1", "\r", "\n">>,
     <<"a", " ", ":", " ", "a", " ", ",">>,
     <<"a", " ", ":", " ", "a", " ", "\r", "\n">>, <<"b", "=", "1", ",">>,
     <<"b", "=", "1", "\r", "\n">>, <<"b", " ", ":", " ", "a", " ", ",">>,
     <<"b", " ", ":", " ", "a", " ", "\r", "\n">>, <<"b", "=", "2", "\n">>}

ObjectTails ==
    {<<>>, <<"a", "=", "1">>, <<"a", "=", "1", "\n">>,
     <<"a", " ", "=", " ", "1", "\r", "\n">>,
     <<" ", "b", " ", "=", " ", "2", " ", "#", "c", "\n">>, <<" ">>,
     <<"(", "a", ")", "=", "1">>, <<"a", "=", "1", ";">>}

\* Bodies: structures with their line endings, and what ends the input.
LineSet ==
    {<<"a", " ", "=", " ", "1", "\n">>, <<"a", " ", "=", " ", "1", "\r", "\n">>,
     <<"b", "=", "2", " ", "#", "c", "\n">>,
     <<"b", "=", "2", " ", "#", "c", "\r", "\n">>,
     <<"a", " ", "{", "\n", " ", "a", " ", "=", " ", "1", "\n", "}", "\n">>,
     <<"a", " ", "{", "\n", " ", "a", " ", "=", " ", "1", "\n", "}", "\r", "\n">>,
     <<"b", " ", "{", " ", "a", " ", "=", " ", "1", " ", "}", "\n">>,
     <<"b", " ", "{", " ", "a", " ", "=", " ", "1", " ", "}", "\r", "\n">>}

LastLines ==
    {<<>>, <<"a", " ", "=", " ", "1">>, <<" ">>, <<"a", " ", "{", "}">>, <<"}">>,
     <<"a", " ", "=", " ", "1", " ", "b", " ", "=", " ", "2">>,
     <<"b", " ", "{", "\n", " ", "a", " ", "=", " ", "1", " ", "}">>}

\* The structures of a nested block.
InnerLines ==
    {<<" ", "a", " ", "=", " ", "1", "\n">>, <<"a", "=", "2", "\n">>,
     <<" ", "b", " ", "=", " ", "1", "\n">>, <<" ", "a", " ", "{", "}", "\n">>}

\* For expressions and identifiers that start with "for".
ForInputs ==
    {<<"{", "f", "o", "r", " ", "k", " ", "i", "n", " ", "m", " ", ":", " ", "k", " ", "=", ">", " ", "v", ".", ".", ".", "}">>,
     <<"{", "f", "o", "r", " ", "k", " ", "i", "n", " ", "m", ":", "k", "=", ">", "v", ".", "b", ".", ".", ".", "}">>,
     <<"[", "f", "o", "r", " ", "x", " ", "i", "n", " ", "y", " ", ":", " ", "x", "]">>,
     <<"[", "f", "o", "r", " ", "x", " ", "i", "n", " ", "y", " ", ":", " ", "x", " ", "i", "f", " ", "c", "]">>,
     <<"{", "f", "o", "r", " ", "k", ",", " ", "v", " ", "i", "n", " ", "m", " ", ":", " ", "k", " ", "=", ">", " ", "v", " ", "i", "f", " ", "c", "}">>,
     <<"[", "f", "o", "r", "m", "a", "t", "(", "x", ")", "]">>,
     <<"[", "f", "o", "r", "]">>, <<"[", "f", "o", "r", "x", "]">>,
     <<"{", "f", "o", "r", " ", "k", " ", "i", "n", " ", "m", " ", ":", " ", "k", "}">>,
     <<"[", "f", "o", "r", " ", "x", " ", "y", "]">>,
     <<"{", "f", "o", "r", " ", "=", " ", "1", "}">>,
     <<"{", " ", "f", "o", "r", " ", "k", " ", "i", "n", " ", "m", " ", ":", " ", "k", " ", "=", ">", " ", "v", " ", "}">>,
     <<"{", "f", "o", "r", " ", "k", " ", "i", "n", " ", "m", " ", ":", " ", "k", " ", "=", ">", " ", "v", " ", ".", ".", ".", "}">>,
     <<"[", "f", "o", "r", " ", "x", " ", "i", "n", " ", "y", " ", ":", " ", "x", ".", "b", "]">>,
     <<"[", "f", "o", "r", "\t", "x", " ", "i", "n", " ", "y", " ", ":", " ", "x", "]">>,
     <<"[", "f", "o", "r", "#", "c", "\n", " ", "x", " ", "i", "n", " ", "y", " ", ":", " ", "x", "]">>,
     <<"[", "f", "o", "r", "/", "*", "c", "*", "/", "x", " ", "i", "n", " ", "y", " ", ":", " ", "x", "]">>,
     <<"[", "f", "o", "r", "/", "x", "]">>,
     <<"[", " ", "f", "o", "r", "m", "a", "t", "(", "x", ")", "]">>,
     <<"[", "\n", "f", "o", "r", " ", "x", " ", "i", "n", " ", "y", " ", ":", " ", "x", "]">>,
     <<"{", "f", "o", "r", "x", " ", "=", " ", "1", "}">>,
     <<"{", "f", "o", "r", "m", "a", "t", " ", "=", " ", "1", "}">>,
     <<"{", "f", "o", "r", "m", "a", "t", "(", "x", ")", " ", "=", " ", "1", "}">>,
     <<"[", "f", "o", "r", "m", ",", " ", "f", "o", "r", "]">>}

\* Reserved words, alone, within expressions and before an argument list.
ReservedInputs ==
    {<<"n", "u", "l", "l">>, <<"t", "r", "u", "e">>, <<"f", "a", "l", "s", "e">>,
     <<"n", "u", "l", "l", "a">>, <<"t", "r", "u", "e", "x">>, <<"n", "u", "l">>,
     <<"t", "r", "u", "e", "(", "a", ")">>, <<"n", "u", "l", "l", "(", ")">>,
     <<"f", "a", "l", "s", "e", " ", "(", "a", ")">>,
     <<"t", "r", "u", "e", "\n", "(", "a", ")">>, <<"t", "r", "u", "e", ".", "b">>,
     <<"n", "u", "l", "l", "+", "1">>,
     <<"t", "r", "u", "e", " ", "?", " ", "a", " ", ":", " ", "b">>,
     <<"[", "t", "r", "u", "e", ",", "n", "u", "l", "l", "]">>,
     <<"f", "(", "t", "r", "u", "e", ")">>,
     <<"f", "a", "l", "s", "e", "(", "a", ",", ")">>, <<"-", "t", "r", "u", "e">>,
     <<"!", "f", "a", "l", "s", "e">>}

\* Quoted strings and templates.
TemplateInputs ==
    {<<"\"", "a", "\"">>, <<"\"", "\"">>, <<"\"", "$", "{", "a", "}", "\"">>,
     <<"\"", "a", "$", "{", "b", "}", "c", "\"">>,
     <<"\"", "$", "{", "a", ".", "b", "}", "$", "{", "f", "(", "c", ")", "}", "\"">>,
     <<"\"", "%", "{", "i", "f", " ", "c", "}", "a", "%", "{", "e", "n", "d", "i", "f", "}", "\"">>,
     <<"\"", "%", "{", "i", "f", " ", "c", "}", "a", "%", "{", "e", "l", "s", "e", "}", "b", "%", "{", "e", "n", "d", "i", "f", "}", "\"">>,
     <<"\"", "%", "{", " ", "i", "f", " ", "c", " ", "}", "$", "{", "a", "}", "%", "{", " ", "e", "l", "s", "e", " ", "}", "$", "{", "b", "}", "%", "{", " ", "e", "n", "d", "i", "f", " ", "}", "\"">>,
     <<"\"", "%", "{", "f", "o", "r", " ", "x", " ", "i", "n", " ", "y", "}", "$", "{", "x", "}", "%", "{", "e", "n", "d", "f", "o", "r", "}", "\"">>,
     <<"\"", "%", "{", "f", "o", "r", " ", "k", ",", " ", "v", " ", "i", "n", " ", "m", "}", "a", "%", "{", "e", "n", "d", "f", "o", "r", "}", "\"">>,
     <<"\"", "%", "{", "f", "o", "r", " ", "x", " ", "i", "n", " ", "f", "(", "y", ")", "}", "%", "{", "i", "f", " ", "x", "}", "$", "{", "x", "}", "%", "{", "e", "n", "d", "i", "f", "}", "%", "{", "e", "n", "d", "f", "o", "r", "}", "\"">>,
     <<"\"", "$", "{", "a">>, <<"\"", "%", "{", "i", "f", " ", "c", "}", "a", "\"">>,
     <<"\"", "%", "{", "f", "o", "r", " ", "x", "}", "a", "%", "{", "e", "n", "d", "f", "o", "r", "}", "\"">>,
     <<"\"", "a", "\"", " ", "+", " ", "\"", "$", "{", "b", "}", "\"">>, <<"\"", "a">>,
     <<"\"", "%", "{", "x", "}", "\"">>,
     <<"\"", "%", "{", "i", "f", " ", "c", "}", "a", "%", "{", "e", "n", "d", "f", "o", "r", "}", "\"">>}

\* Expressions used as the value of an attribute.
ExprsInBody ==
    {<<"-", " ", "1">>, <<"-", "1">>, <<"-", "a">>, <<"a", " ", "+", " ", "b">>,
     <<"a", "/", "*", "c", "*", "/", "+", "b">>, <<"a", " ", "/", "/", "c">>,
     <<"{", "a", "=", "1", ",", "a", "=", "2", "}">>,
     <<"{", "a", " ", "=", " ", "1", "\r", "\n", "}">>,
     <<"f", "(", "a", ".", ".", ".", ")">>,
     <<"f", "(", "a", ".", "b", ".", ".", ".", ")">>,
     <<"[", "1", ",", " ", "2", ",", "]">>,
     <<"a", " ", "?", " ", "b", " ", ":", " ", "c">>,
     <<"a", ".", "b", "[", "0", "]", ".", "*">>, <<"1", " ", "+">>,
     <<"{", "f", "(", "a", ")", " ", "=", " ", "b", "}">>, <<"{", "(", "a", ".", "b", ")", " ", "=", " ", "c", ",", " ", "d", " ", "=", " ", "[", "e", ",", " ", "!", "g", "]", "}">>,
     <<"\"", "%", "{", "f", "o", "r", " ", "x", " ", "i", "n", " ", "y", "}", "$", "{", "x", "}", "%", "{", "e", "n", "d", "f", "o", "r", "}", "\"">>,
     <<"\"", "%", "{", "i", "f", " ", "c", "}", "$", "{", "a", "}", "%", "{", "e", "l", "s", "e", "}", "b", "%", "{", "e", "n", "d", "i", "f", "}", "\"">>,
     <<"[", "f", "o", "r", " ", "x", " ", "i", "n", " ", "y", " ", ":", " ", "x", " ", "i", "f", " ", "c", "]">>, <<"{", "f", "o", "r", " ", "k", ",", " ", "v", " ", "i", "n", " ", "m", " ", ":", " ", "k", " ", "=", ">", " ", "v", "}">>, <<"(", "a", " ", "?", " ", "-", "b", " ", ":", " ", "c", "[", "d", "]", ")">>}

\* The number of structures in a body, of items in an object, an array or an
\* argument list, and of operators in a chain of binary operations.
MaxStructs == 2

MaxItems == 2

MaxOps == 2

Cat(S, T) == {s \o t : s \in S, t \in T}

\* Up to n fragments of S, one after the other.
RECURSIVE UpTo(_, _)
UpTo(S, n) == IF n = 0 THEN {<<>>} ELSE {<<>>} \cup Cat(S, UpTo(S, n - 1))

\* One to n fragments of S, separated by commas.
RECURSIVE Lists(_, _)
Lists(S, n) == IF n = 1 THEN S ELSE S \cup Cat(Cat(S, {<<",">>}), Lists(S, n - 1))

\* An operand followed by up to n operators, each with its operand.
RECURSIVE Chains(_)
Chains(n) ==
    IF n = 0 THEN ChainTerms
    ELSE ChainTerms \cup Cat(Cat(ChainTerms, ChainOps), Chains(n - 1))

OperatorInputs == Cat(Cat(LTerms, Mid), RTerms)

CallInputs ==
    Cat(Cat(Cat(CallOpen, {<<>>} \cup Lists(ArgSet, MaxItems)), Trailers), {<<")">>})

ArrayInputs ==
    Cat(Cat(Cat({<<"[">>}, {<<>>} \cup Lists(ElemSet, MaxItems)), ArrayTails), {<<"]">>})

ObjectInputs ==
    Cat(Cat(Cat({<<"{">>}, UpTo(ItemSet, MaxItems)), ObjectTails), {<<"}">>})

BodyInputs == Cat(UpTo(LineSet, MaxStructs), LastLines)

BlockInputs ==
    Cat(Cat(Cat({<<"b", " ", "{", "\n">>, <<"b", " ", "l", "{", " ", "#", "c", "\n">>},
                UpTo(InnerLines, MaxStructs)),
            {<<"}", "\n">>}),
        {<<>>, <<"a", " ", "=", " ", "1", "\n">>})

\* Blocks whose opening brace is or is not followed by a line ending.
OnelineInputs ==
    {<<"a", " ", "{", " ", "}">>,
     <<"a", " ", "{", " ", "b", " ", "=", " ", "1", " ", "}", "\n">>,
     <<"a", " ", "{", "b", "=", "1", "}">>,
     <<"a", " ", "{", " ", "b", " ", "=", " ", "1", "\n", "}">>,
     <<"a", " ", "{", " ", "b", " ", "{", "}", " ", "}">>,
     <<"a", " ", "{", " ", "b", "=", "1", " ", "c", "=", "2", " ", "}">>,
     <<"a", " ", "{", " ", "#", "c", " ", "}">>,
     <<"a", " ", "{", "\t", "/", "/", "c", "\r", "\n", "b", "=", "1", "\r", "\n", "}">>,
     <<"a", " ", "{", "\r", "\n", "}", "\r", "\n">>,
     <<"a", " ", "{", "\n", "b", " ", "{", " ", "c", "=", "1", " ", "}", "\n", "}", "\n">>}

\* Expressions in which a required token is missing at offset at, with the
\* token that the parser expects there.
CutCores ==
    {[text |-> <<"{", "f", "o", "r", " ", "=", " ", "1", "}">>, msg |-> "identifier", at |-> 5],
     [text |-> <<"[", "f", "o", "r", " ", "x", ",", " ", ":", " ", "x", "]">>, msg |-> "identifier", at |-> 8],
     [text |-> <<"[", "f", "o", "r", " ", "x", " ", "o", "f", " ", "y", " ", ":", " ", "x", "]">>, msg |-> "in", at |-> 7],
     [text |-> <<"[", "f", "o", "r", " ", "x", " ", "i", "n", " ", "y", " ", "x", "]">>, msg |-> ":", at |-> 12],
     [text |-> <<"{", "f", "o", "r", " ", "k", " ", "i", "n", " ", "m", " ", ":", " ", "k", "}">>, msg |-> "=>", at |-> 15],
     [text |-> <<"{", "f", "o", "r", " ", "k", " ", "i", "n", " ", "m", " ", ":", " ", "k", ",", " ", "v", "}">>, msg |-> "=>", at |-> 15],
     [text |-> <<"a", " ", "?", " ", "b">>, msg |-> ":", at |-> 5],
     [text |-> <<"a", " ", "?", " ", "b", " ", "]">>, msg |-> ":", at |-> 6],
     [text |-> <<"[", "a">>, msg |-> "]", at |-> 2],
     [text |-> <<"[", "a", " ", "b", "]">>, msg |-> "]", at |-> 3],
     [text |-> <<"{", "a", " ", "=", " ", "1">>, msg |-> "object item", at |-> 6],
     [text |-> <<"{", "a", " ", "=", " ", "1", " ", "b", "}">>, msg |-> "object item", at |-> 7],
     [text |-> <<"(", "a">>, msg |-> ")", at |-> 2],
     [text |-> <<"(", "a", " ", "b", ")">>, msg |-> ")", at |-> 3],
     [text |-> <<"f", "(", "a">>, msg |-> ")", at |-> 3],
     [text |-> <<"f", "(", "a", " ", "b", ")">>, msg |-> ")", at |-> 4],
     [text |-> <<"x", "[", "0">>, msg |-> "]", at |-> 3]}

\* What stands before such an expression: the start of an enclosing production.
CutWrappers ==
    {<<>>,
     <<"[">>,
     <<"[", "a", ",", " ">>,
     <<"f", "(", "a", ",", " ">>,
     <<"(">>,
     <<"{", "a", " ", "=", " ">>,
     <<"[", "f", "o", "r", " ", "x", " ", "i", "n", " ", "y", " ", ":", " ", "x", " ", "i", "f", " ">>,
     <<"-">>,
     <<"a", " ", "+", " ">>,
     <<"c", " ", "?", " ">>}

\* The same in the value of an attribute, of a body and of a one-line block.
CutBodyWrappers ==
    {<<"x", " ", "=", " ">>, <<"x", " ", "=", " ", "[", "a", ",", " ">>,
     <<"b", " ", "{", " ", "a", " ", "=", " ">>}

CutInputs ==
    {w \o c.text : w \in CutWrappers \cup CutBodyWrappers, c \in CutCores}

\* Objects whose keys are and are not bare identifiers.
KeyInputs ==
    {<<"{", "a", ".", "b", " ", "=", " ", "1", "}">>,
     <<"{", "1", " ", "=", " ", "2", "}">>,
     <<"{", "\"", "a", "\"", " ", "=", " ", "1", "}">>,
     <<"{", "n", "u", "l", "l", " ", "=", " ", "1", "}">>,
     <<"{", "(", "a", ")", " ", "=", " ", "1", "}">>,
     <<"{", "(", "a", ".", "b", ")", " ", ":", " ", "1", "}">>,
     <<"{", "a", " ", "=", " ", "1", "}">>,
     <<"{", "a", "-", "b", " ", ":", " ", "1", "}">>,
     <<"{", "-", "a", " ", "=", " ", "1", "}">>,
     <<"{", "a", " ", "+", " ", "b", " ", "=", " ", "1", "}">>,
     <<"{", "a", "[", "0", "]", " ", ":", " ", "1", "}">>,
     <<"{", "n", "u", "l", "l", "x", " ", "=", " ", "1", "}">>,
     <<"{", "a", " ", "=", " ", "1", ",", " ", "\"", "b", "\"", " ", "=", " ", "2", "\n", " ", "c", ".", "d", " ", "=", " ", "3", "}">>,
     <<"{", "(", "a", ")", "}">>,
     <<"{", "a", ".", "b", "}">>,
     <<"{", "[", "a", "]", " ", "=", " ", "1", "}">>,
     <<"{", "{", "}", " ", "=", " ", "1", "}">>,
     <<"{", "f", "(", "x", ")", ".", "y", " ", "=", " ", "1", "}">>}

\* Expressions without trivia around them, and trivia.
TrimExprs ==
    {<<"a">>,
     <<"1">>,
     <<"f", "(", "x", ")">>,
     <<"[", "a", "]">>,
     <<"a", " ", "+", " ", "b">>,
     <<"a", ".", "b">>,
     <<"\"", "s", "\"">>,
     <<"-", "a">>,
     <<"c", " ", "?", " ", "a", " ", ":", " ", "b">>,
     <<"{", "a", " ", "=", " ", "1", "}">>,
     <<"(", "a", ")">>,
     <<"n", "u", "l", "l">>}

TriviaSet ==
    {<<" ">>,
     <<"\t">>,
     <<"\n">>,
     <<"\r", "\n">>,
     <<" ", " ">>,
     <<" ", "\n">>,
     <<"#", "c">>,
     <<"/", "/", "c">>,
     <<"/", "*", "c", "*", "/">>,
     <<"#", "c", "\n">>,
     <<" ", "/", "*", "c", "*", "/", " ">>,
     <<"\n", "\n">>}

TriviaInputs == TrimExprs \cup Cat(TriviaSet, TrimExprs) \cup Cat(TrimExprs, TriviaSet)

\* Identifiers with a parenthesis behind whitespace, line endings or comments.
NewlineCallInputs ==
    {<<"{", " ", "a", " ", "=", " ", "b", "\n", "(", "c", ")", " ", "=", " ", "d", " ", "}">>,
     <<"{", " ", "a", " ", "=", " ", "b", "\n", "(", "c", ")", " ", "}">>,
     <<"{", "a", " ", "=", " ", "b", "\n", "(", "c", ")", "\n", "(", "d", ")", " ", "=", " ", "e", "}">>,
     <<"{", "a", " ", "=", " ", "b", " ", "#", "x", "\n", " ", "(", "c", ")", ",", " ", "d", " ", "=", " ", "e", "}">>,
     <<"{", "a", " ", "=", " ", "b", " ", "/", "*", "x", "*", "/", " ", "(", "c", ")", "}">>,
     <<"{", "a", " ", "=", " ", "b", "\r", "\n", "(", "c", ")", " ", ":", " ", "d", "}">>,
     <<"{", "a", " ", "=", " ", "b", ",", "\n", "(", "c", ")", " ", "=", " ", "d", "}">>,
     <<"b", "\n", "(", "c", ")">>,
     <<"b", " ", "(", "c", " ", "d", ")">>,
     <<"[", "a", "\n", "(", "b", ")", ",", " ", "c", "]">>,
     <<"a", ".", "b", "\n", "(", "c", ")">>,
     <<"{", "a", "\n", "(", "b", ")", " ", "=", " ", "c", "}">>}

AttributeInputs ==
    Cat(Cat({<<"x", " ", "=", " ">>, <<"x", "=">>}, ExprsInBody), {<<"\n">>, <<>>})

Inputs ==
    OperatorInputs \cup UnaryInputs \cup Chains(MaxOps) \cup CallInputs \cup ArrayInputs
    \cup ObjectInputs \cup ForInputs \cup ReservedInputs \cup TemplateInputs \cup BodyInputs
    \cup BlockInputs \cup OnelineInputs \cup CutInputs \cup KeyInputs \cup TriviaInputs
    \cup NewlineCallInputs
    \cup AttributeInputs

(***************************************************************************)
(* The state machine: an input is chosen, parsed by one of the entry       *)
(* points and, when the parse succeeded, rendered back to text or walked   *)
(* by a visitor whose hooks all keep their default bodies.  stream is the  *)
(* offset of the cursor of parse_complete when the parser returned; calls  *)
(* is the sequence of hook calls of the walk.                              *)
(***************************************************************************)
Init ==
    /\ input \in Inputs
    /\ pc = "start"
    /\ mode = "none"
    /\ stream = 0
    /\ result = None
    /\ out = <<>>
    /\ calls = <<>>

ParseBody ==
    /\ pc = "start"
    /\ pc' = "parsed"
    /\ mode' = "body"
    /\ stream' = body(0).pos
    /\ result' = parse_body
    /\ UNCHANGED <<input, out, calls>>

ParseExpr ==
    /\ pc = "start"
    /\ pc' = "parsed"
    /\ mode' = "expr"
    /\ stream' = expr(0).pos
    /\ result' = parse_expr
    /\ UNCHANGED <<input, out, calls>>

Render ==
    /\ pc = "parsed"
    /\ result.ok
    /\ pc' = "rendered"
    /\ out' = IF mode = "body" THEN render_body(result.tree) ELSE render_expr(result.tree)
    /\ UNCHANGED <<input, mode, stream, result, calls>>

\* v.visit_body_mut(&mut body), v.visit_expr_mut(&mut expr): the visitor is
\* started on the tree that the entry point returned.
Visit ==
    /\ pc = "parsed"
    /\ result.ok
    /\ pc' = "visited"
    /\ calls' = IF mode = "body"
                THEN Hook("visit_body_mut", <<>>, visit_body_mut(<<>>, result.tree))
                ELSE v_visit_expr_mut(<<>>, result.tree)
    /\ UNCHANGED <<input, mode, stream, result, out>>

Next == ParseBody \/ ParseExpr \/ Render \/ Visit

Spec == Init /\ [][Next]_vars

(***************************************************************************)
(* Reading trees and inputs.                                               *)
(***************************************************************************)
Parsed == pc # "start"

Accepted == Parsed /\ result.ok

\* The decoration slots of a tree: every recorded range, with repetitions.
RECURSIVE ExprSlots(_), ExprsSlots(_), OpsSlots(_), ItemsSlots(_), BodySlots(_),
          StructuresSlots(_), IdentsSlots(_), TemplateSlots(_)

Own(n) == <<n.pre, n.suf>>

OptIdent(i) == IF i = None THEN <<>> ELSE Own(i)

OptExpr(e) == IF e = None THEN <<>> ELSE ExprSlots(e)

ExprsSlots(es) == IF es = <<>> THEN <<>> ELSE ExprSlots(es[1]) \o ExprsSlots(Tail(es))

IdentsSlots(is) == IF is = <<>> THEN <<>> ELSE Own(is[1]) \o IdentsSlots(Tail(is))

OpsSlots(ops) ==
    IF ops = <<>> THEN <<>>
    ELSE <<ops[1].pre, ops[1].ipre, ops[1].isuf>>
         \o (IF ops[1].t = "Index" THEN ExprSlots(ops[1].value) ELSE <<>>)
         \o OpsSlots(Tail(ops))

ItemsSlots(items) ==
    IF items = <<>> THEN <<>>
    ELSE Own(items[1].key)
         \o (IF items[1].key.t = "Expression" THEN ExprSlots(items[1].key.expr) ELSE <<>>)
         \o ExprSlots(items[1].value.expr)
         \o ItemsSlots(Tail(items))

ExprSlots(e) ==
    Own(e) \o
    CASE e.t = "UnaryOp" -> ExprSlots(e.expr)
      [] e.t = "BinaryOp" -> ExprSlots(e.lhs) \o ExprSlots(e.rhs)
      [] e.t = "Conditional" -> ExprSlots(e.cond) \o ExprSlots(e.true) \o ExprSlots(e.false)
      [] e.t = "Traversal" -> ExprSlots(e.expr) \o OpsSlots(e.ops)
      [] e.t = "Array" -> ExprsSlots(e.values) \o <<e.trailing>>
      [] e.t = "Object" -> ItemsSlots(e.items) \o <<e.trailing>>
      [] e.t = "Parenthesis" -> ExprSlots(e.inner)
      [] e.t = "FuncCall" -> <<e.args.pre, e.args.trailing>> \o ExprsSlots(e.args.args)
      [] e.t = "ForExpr" ->
            <<e.intro.pre>> \o OptIdent(e.intro.key_var) \o Own(e.intro.value_var)
            \o ExprSlots(e.intro.collection) \o OptExpr(e.key_expr)
            \o ExprSlots(e.value_expr)
            \o (IF e.cond = None THEN <<>> ELSE <<e.cond.pre>> \o ExprSlots(e.cond.expr))
      [] e.t = "Template" -> TemplateSlots(e)
      [] OTHER -> <<>>

TemplateSlots(tpl) ==
    LET DirectiveSlots(d) ==
            IF d.t = "If"
            THEN <<d.if_expr.pre>> \o ExprSlots(d.if_expr.cond_expr)
                 \o TemplateSlots(d.if_expr.template)
                 \o (IF d.else_expr = None THEN <<>>
                     ELSE Own(d.else_expr) \o TemplateSlots(d.else_expr.template))
                 \o Own(d.endif_expr)
            ELSE <<d.for_expr.pre>> \o OptIdent(d.for_expr.key_var)
                 \o Own(d.for_expr.value_var) \o ExprSlots(d.for_expr.collection_expr)
                 \o TemplateSlots(d.for_expr.template) \o Own(d.endfor_expr)
        slots[i \in 0..Len(tpl.elements)] ==
            IF i = 0 THEN <<>>
            ELSE slots[i - 1] \o
                 (CASE tpl.elements[i].t = "Literal" -> <<>>
                    [] tpl.elements[i].t = "Interpolation" -> ExprSlots(tpl.elements[i].expr)
                    [] tpl.elements[i].t = "Directive" ->
                          DirectiveSlots(tpl.elements[i].directive))
    IN  slots[Len(tpl.elements)]

StructuresSlots(ss) ==
    IF ss = <<>> THEN <<>>
    ELSE LET s == ss[1]
         IN  Own(s)
             \o (IF s.t = "Attribute" THEN Own(s.key) \o ExprSlots(s.value)
                 ELSE Own(s.ident) \o IdentsSlots(s.labels) \o BodySlots(s.body))
             \o StructuresSlots(Tail(ss))

BodySlots(b) == Own(b) \o StructuresSlots(b.structures)

Slots == IF mode = "body" THEN BodySlots(result.tree) ELSE ExprSlots(result.tree)

\* The number of slots that hold the byte at offset i.
Holders(slots, i) ==
    Cardinality({k \in 1..Len(slots) :
                    slots[k] # NoSpan /\ slots[k][1] <= i /\ i < slots[k][2]})

\* The bytes of the comments of the input.
RECURSIVE CommentBytes(_)
CommentBytes(p) ==
    IF p >= Len(input) THEN {}
    ELSE IF At(p) = "#" \/ (At(p) = "/" /\ At(p + 1) = "/")
    THEN (p..(UntilLf(p) - 1)) \cup CommentBytes(UntilLf(p))
    ELSE IF At(p) = "/" /\ At(p + 1) = "*" /\ inline_comment(p) >= 0
    THEN (p..(inline_comment(p) - 1)) \cup CommentBytes(inline_comment(p))
    ELSE CommentBytes(p + 1)

\* The bytes of whitespace and comments.
TriviaBytes ==
    {i \in 0..(Len(input) - 1) : At(i) \in {" ", "\t", "\n", "\r"}} \cup CommentBytes(0)

\* Horizontal whitespace between a `-` and the digits that follow it.
RECURSIVE BackSp(_)
BackSp(i) == IF i >= 0 /\ At(i) \in {" ", "\t"} THEN BackSp(i - 1) ELSE i

NegNumberByte(i) ==
    /\ At(i) \in {" ", "\t"}
    /\ BackSp(i) >= 0
    /\ At(BackSp(i)) = "-"
    /\ At(sp(i)) \in Digits

\* The offset of the line that follows the line of offset p.
NextLine(p) == IF At(UntilLf(p)) = EOF THEN UntilLf(p) ELSE UntilLf(p) + 1

HasByte(s, e, b) == \E i \in s..(e - 1) : At(i) = b

\* Reading the input line by line from offset p, with the attribute keys seen
\* so far in each open body (the innermost last): the offset of the first key
\* that repeats a key of its own body, or -1.
RECURSIVE Redefinition(_, _)
Redefinition(p, keys) ==
    IF p >= Len(input) THEN -1
    ELSE LET q == sp(p)
             e == IdEnd(q)
             n == Len(keys)
             key == Slice(q, e)
         IN  IF is_id_start(At(q)) /\ At(sp(e)) = "="
             THEN IF key \in keys[n] THEN q
                  ELSE Redefinition(NextLine(p), [keys EXCEPT ![n] = @ \cup {key}])
             ELSE IF is_id_start(At(q)) /\ HasByte(q, UntilLf(p), "{")
                     /\ ~HasByte(q, UntilLf(p), "}")
             THEN Redefinition(NextLine(p), Append(keys, {}))
             ELSE IF At(q) = "}" /\ n > 1
             THEN Redefinition(NextLine(p), SubSeq(keys, 1, n - 1))
             ELSE Redefinition(NextLine(p), keys)

\* Inputs made of well-formed structures, one per line.
StructureInputs == BodyInputs \cup BlockInputs

HasRedefinition == input \in StructureInputs /\ Redefinition(0, <<{}>>) >= 0

RedefinitionError == Parsed /\ mode = "body" /\ ~result.ok /\ result.msg = Redefined

\* The bodies of a tree of structures.
RECURSIVE Bodies(_), StructuresBodies(_)
StructuresBodies(ss) ==
    IF ss = <<>> THEN {}
    ELSE (IF ss[1].t = "Block" THEN Bodies(ss[1].body) ELSE {})
         \cup StructuresBodies(Tail(ss))

Bodies(b) == {b} \cup StructuresBodies(b.structures)

DistinctKeys(b) ==
    \A i, j \in 1..Len(b.structures) :
        (/\ i # j
         /\ b.structures[i].t = "Attribute"
         /\ b.structures[j].t = "Attribute")
        => b.structures[i].key.name # b.structures[j].key.name

\* The names of the structures of the outermost body, in source order.
RECURSIVE SourceNames(_, _)
SourceNames(p, depth) ==
    IF p >= Len(input) THEN <<>>
    ELSE LET q == sp(p)
             e == IdEnd(q)
             opens == /\ is_id_start(At(q))
                      /\ At(sp(e)) # "="
                      /\ HasByte(q, UntilLf(p), "{")
                      /\ ~HasByte(q, UntilLf(p), "}")
             closes == At(q) = "}" /\ depth > 0
             d == IF opens THEN depth + 1 ELSE IF closes THEN depth - 1 ELSE depth
         IN  (IF depth = 0 /\ is_id_start(At(q)) THEN <<Slice(q, e)>> ELSE <<>>)
             \o SourceNames(NextLine(p), d)

TreeNames(b) ==
    [i \in 1..Len(b.structures) |->
        IF b.structures[i].t = "Attribute" THEN b.structures[i].key.name
        ELSE b.structures[i].ident.name]

\* The keys of the items of an object, in source order: the text before each
\* `=` or `:`.
RECURSIVE KeyStart(_)
KeyStart(j) ==
    IF j < 0 \/ At(j) \in {" ", "\t", "\n", "\r", ",", "{"} THEN j + 1 ELSE KeyStart(j - 1)

RECURSIVE SourceKeys(_)
SourceKeys(p) ==
    IF p >= Len(input) THEN <<>>
    ELSE (IF At(p) \in {"=", ":"}
          THEN <<Slice(KeyStart(BackSp(p - 1)), BackSp(p - 1) + 1)>>
          ELSE <<>>)
         \o SourceKeys(p + 1)

TreeKeys(o) ==
    [i \in 1..Len(o.items) |->
        IF o.items[i].key.t = "Ident" THEN o.items[i].key.name
        ELSE render_expr(o.items[i].key.expr)]

\* The arguments of a call, in source order: the text between the parentheses
\* without a final `...`, split at the commas, without an empty last part.
RECURSIVE Split(_, _)
Split(s, e) ==
    IF ~HasByte(s, e, ",") THEN <<Span(s, e)>>
    ELSE LET c == CHOOSE i \in s..(e - 1) : At(i) = "," /\ ~HasByte(s, i, ",")
         IN  <<Span(s, c)>> \o Split(c + 1, e)

ArgsEnd ==
    LET close == Len(input) - 1
    IN  IF At(close - 1) = "." /\ At(close - 2) = "." /\ At(close - 3) = "."
        THEN close - 3 ELSE close

SourceArgs ==
    LET open == CHOOSE i \in 0..Len(input) : At(i) = "("
        parts == Split(open + 1, ArgsEnd)
        last == parts[Len(parts)]
    IN  IF last[1] = last[2] THEN SubSeq(parts, 1, Len(parts) - 1) ELSE parts

(***************************************************************************)
(* Properties.                                                             *)
(***************************************************************************)

\* C1: round-trip identity.  Rendering the tree of an accepted input gives
\* back the input, byte for byte.
C1_RoundTrip == pc = "rendered" => out = input

\* C2: after a successful parse every byte of whitespace or of a comment is
\* recorded in exactly one decoration slot: none is dropped, none is recorded
\* twice.  The LF of a line ending and the whitespace inside the repr of a
\* negative number are counted as parts of tokens here, not as trivia.
C2_EveryTriviaByteInOneSlot ==
    Accepted =>
        \A i \in TriviaBytes :
            (At(i) # "\n" /\ ~NegNumberByte(i)) => Holders(Slots, i) = 1

\* C3: parse_body fails with the redefinition error for every input in which
\* two attributes of one body have the same key, and in every body of an
\* accepted input the attribute keys are pairwise distinct.
C3_AttributeKeysUnique ==
    /\ (Parsed /\ mode = "body" /\ HasRedefinition) => RedefinitionError
    /\ (Accepted /\ mode = "body") => \A b \in Bodies(result.tree) : DistinctKeys(b)

\* parse_body has rejected an input whose second structure repeats a key.
C3_Witness == RedefinitionError /\ HasRedefinition

\* C4: the redefinition error is reported at the offset where the key of the
\* redefining attribute starts.
C4_ErrorAtRedefiningKey ==
    (RedefinitionError /\ HasRedefinition) => result.offset = Redefinition(0, <<{}>>)

\* C5: an object is not rejected because two of its items have the same key:
\* every object built of well-formed items is accepted, whatever its keys and
\* terminators are.
WellFormedObjects ==
    Cat(Cat(Cat({<<"{">>}, UpTo(ItemSet, MaxItems)), ObjectTails \ {<<"a", "=", "1", ";">>, <<"(", "a", ")", "=", "1">>}),
        {<<"}">>})

HasRepeatedKey ==
    \E i, j \in 1..Len(SourceKeys(0)) : i # j /\ SourceKeys(0)[i] = SourceKeys(0)[j]

C5_DuplicateKeysAccepted ==
    (Parsed /\ mode = "expr" /\ input \in WellFormedObjects)
        => result.ok /\ result.tree.t = "Object"

\* An object in which a key occurs twice has been accepted.
C5_Witness ==
    /\ Accepted
    /\ mode = "expr"
    /\ input \in WellFormedObjects
    /\ HasRepeatedKey

\* C6: the structures of a body, the items of an object and the arguments of
\* a call are in the tree in source order, one entry for each source item.
C6_SourceOrder ==
    /\ (Accepted /\ mode = "body") => TreeNames(result.tree) = SourceNames(0, 0)
    /\ (Accepted /\ mode = "expr" /\ result.tree.t = "Object")
           => TreeKeys(result.tree) = SourceKeys(0)
    /\ (Accepted /\ mode = "expr" /\ result.tree.t = "FuncCall")
           => /\ Len(result.tree.args.args) = Len(SourceArgs)
              /\ \A i \in 1..Len(SourceArgs) :
                    render_expr(result.tree.args.args[i]) = Raw(SourceArgs[i])

\* C7: an entry point returns a tree only if the top-level production has
\* consumed the input up to its end; when a byte remains it returns an error.
C7_ConsumedToEof ==
    /\ Accepted => stream = Len(input)
    /\ (Parsed /\ stream < Len(input)) => ~result.ok

\* The top-level production succeeded before the end of the input, and the
\* entry point returned the error of eof.
C7_Witness ==
    /\ Parsed
    /\ ~result.ok
    /\ result.msg = "eof"
    /\ 0 < stream
    /\ stream < Len(input)

\* C8, as stated: `- 1` is the unary operation Neg on the number 1, and `-1`
\* is a number whose repr is "-1".
C8_MinusSpaceIsUnaryOp ==
    (Accepted /\ mode = "expr")
        => /\ input = <<"-", " ", "1">>
              => /\ result.tree.t = "UnaryOp"
                 /\ result.tree.op = "Neg"
                 /\ result.tree.expr.t = "Number"
                 /\ result.tree.expr.repr = <<"1">>
           /\ input = <<"-", "1">>
              => result.tree.t = "Number" /\ result.tree.repr = <<"-", "1">>

\* C8, amended: a `-` followed by optional horizontal whitespace and digits
\* is a single negative number whose repr is the source text, whitespace
\* included, so `- 1` and `-1` differ only in their repr; a `-` is the unary
\* operator Neg only when no digit follows it, as in `-a` and `- a`.
C8_NegativeNumber ==
    (Accepted /\ mode = "expr" /\ At(0) = "-")
        => /\ result.tree.t = "Number"
              => /\ At(sp(1)) \in Digits
                 /\ result.tree.negated
                 /\ result.tree.repr = input
           /\ result.tree.t = "UnaryOp"
              => result.tree.op = "Neg" /\ At(sp(1)) \notin Digits
           /\ input \in {<<"-", " ", "1">>, <<"-", "1">>, <<"-", "\t", "1">>}
              => result.tree.t = "Number"
           /\ input \in {<<"-", "a">>, <<"-", " ", "a">>}
              => result.tree.t = "UnaryOp" /\ result.tree.expr.t = "Variable"

\* `- 1` has been parsed to a number whose repr holds the whitespace.
C8_Witness ==
    /\ Accepted
    /\ mode = "expr"
    /\ input = <<"-", " ", "1">>
    /\ result.tree.t = "Number"
    /\ result.tree.repr = <<"-", " ", "1">>

\* C9: an expression directly followed by `...` as the last argument of a call
\* or as the value of a for-object ends before the dots, and the dots are the
\* expand-final or the grouping marker.
EllipsisCalls == Cat(Cat(CallOpen, Lists(ArgSet \ {<<" ", "1", " ">>}, MaxItems)),
                     {<<".", ".", ".", ")">>})

GroupingInputs ==
    {<<"{", "f", "o", "r", " ", "k", " ", "i", "n", " ", "m", " ", ":", " ", "k", " ", "=",
       ">", " ", "v", ".", ".", ".", "}">>,
     <<"{", "f", "o", "r", " ", "k", " ", "i", "n", " ", "m", ":", "k", "=", ">", "v", ".",
       "b", ".", ".", ".", "}">>}

C9_EllipsisEndsExpression ==
    (Parsed /\ mode = "expr")
        => /\ input \in EllipsisCalls
              => /\ result.ok
                 /\ result.tree.t = "FuncCall"
                 /\ result.tree.args.expand_final
           /\ input \in GroupingInputs
              => result.ok /\ result.tree.t = "ForExpr" /\ result.tree.grouping

\* C10: a `/` that starts a comment is not the division operator: a term
\* followed by `//` or `/*` is not the left operand of a Div, and
\* `a/*c*/+b` is the binary operation a Plus b.
RECURSIVE TermEnd(_)
TermEnd(p) == IF At(p) \in Letters \cup Digits THEN TermEnd(p + 1) ELSE p

CommentAfterFirstTerm ==
    LET p == sp(TermEnd(0)) IN TermEnd(0) > 0 /\ At(p) = "/" /\ At(p + 1) \in {"/", "*"}

ForKeyword ==
    LET w == ws(1)
    IN  /\ At(0) \in {"[", "{"}
        /\ <<At(w), At(w + 1), At(w + 2)>> = <<"f", "o", "r">>
        /\ At(w + 3) \in {" ", "\t", "#", "/"}

StartsWithFor ==
    LET w == ws(1)
    IN  /\ At(0) \in {"[", "{"}
        /\ <<At(w), At(w + 1), At(w + 2)>> = <<"f", "o", "r">>

C11_ForNeedsSeparator ==
    (Parsed /\ mode = "expr" /\ At(0) \in {"[", "{"})
        => /\ (result.ok /\ result.tree.t = "ForExpr") => ForKeyword
           /\ (result.ok /\ ForKeyword) => result.tree.t = "ForExpr"
           /\ (StartsWithFor /\ ~ForKeyword /\ At(ws(1) + 3) \in Letters \cup {"]"})
                 => /\ result.ok
                    /\ At(0) = "[" => /\ result.tree.t = "Array"
                                      /\ result.tree.values[1].t \in {"Variable", "FuncCall"}
                    /\ At(0) = "{" => /\ result.tree.t = "Object"
                                      /\ result.tree.items[1].key.t \in {"Ident", "Expression"}
           /\ input = <<"[", "f", "o", "r", "m", "a", "t", "(", "x", ")", "]">>
                 => /\ result.tree.t = "Array"
                    /\ Len(result.tree.values) = 1
                    /\ result.tree.values[1].t = "FuncCall"
                    /\ result.tree.values[1].name = <<"f", "o", "r", "m", "a", "t">>

\* `[format(x)]` has been parsed to an Array of one FuncCall.
C11_Witness ==
    /\ Accepted
    /\ mode = "expr"
    /\ input = <<"[", "f", "o", "r", "m", "a", "t", "(", "x", ")", "]">>
    /\ result.tree.t = "Array"
    /\ result.tree.values[1].t = "FuncCall"

\* The expressions of a tree: the tree itself and every expression below it.
RECURSIVE AllExprs(_), BodyExprs(_), TemplateExprs(_)

SeqExprs(es) == UNION {AllExprs(es[i]) : i \in 1..Len(es)}

AllExprs(e) ==
    {e} \cup
    CASE e.t = "UnaryOp" -> AllExprs(e.expr)
      [] e.t = "BinaryOp" -> AllExprs(e.lhs) \cup AllExprs(e.rhs)
      [] e.t = "Conditional" -> AllExprs(e.cond) \cup AllExprs(e.true) \cup AllExprs(e.false)
      [] e.t = "Traversal" ->
            AllExprs(e.expr)
            \cup UNION {IF e.ops[i].t = "Index" THEN AllExprs(e.ops[i].value) ELSE {} :
                           i \in 1..Len(e.ops)}
      [] e.t = "Array" -> SeqExprs(e.values)
      [] e.t = "Object" ->
            UNION {(IF e.items[i].key.t = "Expression" THEN AllExprs(e.items[i].key.expr)
                    ELSE {}) \cup AllExprs(e.items[i].value.expr) : i \in 1..Len(e.items)}
      [] e.t = "Parenthesis" -> AllExprs(e.inner)
      [] e.t = "FuncCall" -> SeqExprs(e.args.args)
      [] e.t = "ForExpr" ->
            AllExprs(e.intro.collection)
            \cup (IF e.key_expr = None THEN {} ELSE AllExprs(e.key_expr))
            \cup AllExprs(e.value_expr)
            \cup (IF e.cond = None THEN {} ELSE AllExprs(e.cond.expr))
      [] e.t = "Template" -> TemplateExprs(e)
      [] OTHER -> {}

TemplateExprs(tpl) ==
    LET DirectiveExprs(d) ==
            IF d.t = "If"
            THEN AllExprs(d.if_expr.cond_expr) \cup TemplateExprs(d.if_expr.template)
                 \cup (IF d.else_expr = None THEN {}
                       ELSE TemplateExprs(d.else_expr.template))
            ELSE AllExprs(d.for_expr.collection_expr) \cup TemplateExprs(d.for_expr.template)
    IN  UNION {CASE tpl.elements[i].t = "Literal" -> {}
                 [] tpl.elements[i].t = "Interpolation" -> AllExprs(tpl.elements[i].expr)
                 [] tpl.elements[i].t = "Directive" -> DirectiveExprs(tpl.elements[i].directive) :
               i \in 1..Len(tpl.elements)}

BodyExprs(b) ==
    UNION {IF b.structures[i].t = "Attribute" THEN AllExprs(b.structures[i].value)
           ELSE BodyExprs(b.structures[i].body) : i \in 1..Len(b.structures)}

TreeExprs == IF mode = "body" THEN BodyExprs(result.tree) ELSE AllExprs(result.tree)

\* C12: an argument list takes at most one trailer after its last argument,
\* `,` or `...`: no FuncArgs of a tree has both trailing_comma and
\* expand_final, and a call with both trailers, or with a trailer and no
\* argument, is rejected.
CallsWithArgs == Cat(CallOpen, Lists(ArgSet, MaxItems))

TwoTrailerCalls == Cat(CallsWithArgs, {<<".", ".", ".", ",", ")">>, <<",", ".", ".", ".", ")">>})

TrailerOnlyCalls == Cat(CallOpen, {<<",", ")">>, <<".", ".", ".", ")">>})

CommaCalls == Cat(CallsWithArgs, {<<",", ")">>})

C12_AtMostOneTrailer ==
    Parsed
        => /\ result.ok
              => \A e \in TreeExprs :
                    e.t = "FuncCall" => ~(e.args.trailing_comma /\ e.args.expand_final)
           /\ (mode = "expr" /\ input \in TwoTrailerCalls \cup TrailerOnlyCalls) => ~result.ok
           /\ (mode = "expr" /\ input \in CommaCalls)
                 => /\ result.ok
                    /\ result.tree.t = "FuncCall"
                    /\ result.tree.args.trailing_comma => At(Len(input) - 2) = ","
                    /\ result.tree.args.expand_final
                       => <<At(Len(input) - 4), At(Len(input) - 3), At(Len(input) - 2)>>
                          = <<".", ".", ".">>

\* `f(a...,)` has been rejected at the comma that follows the dots.
C12_Witness ==
    /\ Parsed
    /\ mode = "expr"
    /\ input = <<"f", "(", "a", ".", ".", ".", ",", ")">>
    /\ ~result.ok
    /\ result.offset = 6

\* The first term of an expression, below the operations built on it.
RECURSIVE LeftTerm(_)
LeftTerm(e) ==
    CASE e.t = "BinaryOp" -> LeftTerm(e.lhs)
      [] e.t = "Conditional" -> LeftTerm(e.cond)
      [] e.t = "Traversal" -> LeftTerm(e.expr)
      [] OTHER -> e

ReservedWords == {<<"n", "u", "l", "l">>, <<"t", "r", "u", "e">>, <<"f", "a", "l", "s", "e">>}

\* The literal node of a reserved word.
IsLiteralOf(e, word) ==
    CASE word = <<"n", "u", "l", "l">> -> e.t = "Null"
      [] word = <<"t", "r", "u", "e">> -> e.t = "Bool" /\ e.value
      [] word = <<"f", "a", "l", "s", "e">> -> e.t = "Bool" /\ ~e.value
      [] OTHER -> FALSE

\* The identifier at the start of the input, and whether `(` follows it.
FirstIdent == Slice(0, IdEnd(0))

ArgsFollow == At(ws(IdEnd(0))) = "("

IdentlikeFirst == mode = "expr" /\ is_id_start(At(0))

\* C13, as stated: a reserved word always becomes a literal node, and only an
\* identifier that is not a reserved word becomes a FuncCall or a Variable.
C13_ReservedAlwaysLiteral ==
    (Accepted /\ IdentlikeFirst)
        => /\ FirstIdent \in ReservedWords => IsLiteralOf(LeftTerm(result.tree), FirstIdent)
           /\ \A e \in TreeExprs :
                 e.t \in {"FuncCall", "Variable"} => e.name \notin ReservedWords

\* C13, amended: an identifier followed by an argument list is a FuncCall,
\* whether or not it is a reserved word; with no argument list a reserved word
\* is its literal node and any other identifier is a Variable.
C13_ReservedUnlessCalled ==
    (Parsed /\ IdentlikeFirst)
        => /\ (result.ok /\ ArgsFollow)
                 => /\ LeftTerm(result.tree).t = "FuncCall"
                    /\ LeftTerm(result.tree).name = FirstIdent
           /\ (result.ok /\ ~ArgsFollow /\ FirstIdent \in ReservedWords)
                 => IsLiteralOf(LeftTerm(result.tree), FirstIdent)
           /\ (result.ok /\ ~ArgsFollow /\ FirstIdent \notin ReservedWords)
                 => /\ LeftTerm(result.tree).t = "Variable"
                    /\ LeftTerm(result.tree).name = FirstIdent
           /\ result.ok => \A e \in TreeExprs : e.t = "Variable" => e.name \notin ReservedWords
           /\ input \in {<<"t", "r", "u", "e", "(", "a", ")">>, <<"n", "u", "l", "l", "(", ")">>,
                         <<"f", "a", "l", "s", "e", " ", "(", "a", ")">>}
                 => result.ok /\ result.tree.t = "FuncCall"

\* `true(a)` has been parsed to a call of the function `true`.
C13_Witness ==
    /\ Accepted
    /\ mode = "expr"
    /\ input = <<"t", "r", "u", "e", "(", "a", ")">>
    /\ result.tree.t = "FuncCall"
    /\ result.tree.name = <<"t", "r", "u", "e">>

\* The operands and operators of a chain `t1 op1 t2 op2 ...` of one-byte
\* operands, read from the source.
ChainOpName(p) ==
    CASE At(p) = "+" -> "Plus"
      [] At(p) = "-" -> "Minus"
      [] At(p) = "*" -> "Mul"
      [] At(p) = "/" -> "Div"
      [] At(p) = "=" -> "Eq"
      [] OTHER -> "?"

RECURSIVE SourceChain(_)
SourceChain(p) ==
    LET o == sp(p + 1)
        next == sp(IF At(o) = "=" THEN o + 2 ELSE o + 1)
    IN  IF At(o) = EOF THEN <<Slice(p, p + 1)>>
        ELSE <<Slice(p, p + 1), ChainOpName(o)>> \o SourceChain(next)

\* The same sequence read from a tree that leans to the right: every left
\* operand is a term, every right operand is the rest of the chain.
TermText(e) ==
    CASE e.t = "Variable" -> e.name
      [] e.t = "Number" -> e.repr
      [] OTHER -> <<"?">>

RECURSIVE TreeChain(_)
TreeChain(e) ==
    IF e.t = "BinaryOp" THEN <<TermText(e.lhs), e.op>> \o TreeChain(e.rhs)
    ELSE <<TermText(e)>>

\* C14: binary operations lean to the right, whatever the operators are:
\* `t1 op1 t2 op2 t3` is BinaryOp(t1, op1, BinaryOp(t2, op2, t3)), and
\* `a * 1+a` is a Mul whose right operand is the Plus.
C14_RightLeaning ==
    (Parsed /\ mode = "expr" /\ input \in Chains(MaxOps))
        => /\ result.ok
           /\ TreeChain(result.tree) = SourceChain(0)
           /\ input = <<"a", " ", "*", " ", "1", "+", "a">>
                 => /\ result.tree.op = "Mul"
                    /\ result.tree.lhs.t = "Variable"
                    /\ result.tree.rhs.t = "BinaryOp"
                    /\ result.tree.rhs.op = "Plus"

\* `a * 1+a` has been parsed to a * (1 + a).
C14_Witness ==
    /\ Accepted
    /\ mode = "expr"
    /\ input = <<"a", " ", "*", " ", "1", "+", "a">>
    /\ result.tree.t = "BinaryOp"
    /\ result.tree.op = "Mul"
    /\ result.tree.rhs.t = "BinaryOp"

\* C15: CRLF and LF both end an object item, and the tree keeps which of the
\* two the source had: the CR of a CRLF terminator is held by the tree, and
\* the object is rendered with as many CRs as its source has.
CrOffsets == {i \in 0..(Len(input) - 1) : At(i) = "\r"}

CrCount(s) == Cardinality({i \in 1..Len(s) : s[i] = "\r"})

TerminatorKinds(obj) == {obj.items[i].value.terminator : i \in 1..Len(obj.items)}

C15_TerminatorKept ==
    (mode = "expr" /\ input \in WellFormedObjects /\ ~HasRepeatedKey)
        => /\ Parsed => result.ok /\ result.tree.t = "Object"
           /\ Accepted
                 => \A i \in CrOffsets :
                       \/ Holders(Slots, i) >= 1
                       \/ TerminatorKinds(result.tree) \ {"None", "Comma", "Newline"} # {}
           /\ pc = "rendered" => CrCount(out) = CrCount(input)

\* The paths of the Expression nodes of a tree, read from the fields of the
\* nodes: every field that holds an expression, at any depth.
RECURSIVE ExprPaths(_, _), BodyExprPaths(_, _), TemplateExprPaths(_, _)

ExprPaths(path, e) ==
    {path} \cup
    CASE e.t = "UnaryOp" -> ExprPaths(Child(path, "expr", 0), e.expr)
      [] e.t = "BinaryOp" ->
            ExprPaths(Child(path, "lhs_expr", 0), e.lhs)
            \cup ExprPaths(Child(path, "rhs_expr", 0), e.rhs)
      [] e.t = "Conditional" ->
            ExprPaths(Child(path, "cond_expr", 0), e.cond)
            \cup ExprPaths(Child(path, "true_expr", 0), e.true)
            \cup ExprPaths(Child(path, "false_expr", 0), e.false)
      [] e.t = "Traversal" ->
            ExprPaths(Child(path, "expr", 0), e.expr)
            \cup UNION {IF e.ops[i].t = "Index"
                        THEN ExprPaths(Child(path, "operators", i), e.ops[i].value)
                        ELSE {} : i \in 1..Len(e.ops)}
      [] e.t = "Array" ->
            UNION {ExprPaths(Child(path, "values", i), e.values[i]) : i \in 1..Len(e.values)}
      [] e.t = "Object" ->
            UNION {LET item == Child(path, "items", i)
                   IN  (IF e.items[i].key.t = "Expression"
                        THEN ExprPaths(Child(Child(item, "key", 0), "expr", 0),
                                       e.items[i].key.expr)
                        ELSE {})
                       \cup ExprPaths(Child(Child(item, "value", 0), "expr", 0),
                                      e.items[i].value.expr) : i \in 1..Len(e.items)}
      [] e.t = "Parenthesis" -> ExprPaths(Child(path, "inner", 0), e.inner)
      [] e.t = "FuncCall" ->
            UNION {ExprPaths(Child(Child(path, "args", 0), "args", i), e.args.args[i]) :
                      i \in 1..Len(e.args.args)}
      [] e.t = "ForExpr" ->
            ExprPaths(Child(Child(path, "intro", 0), "collection_expr", 0), e.intro.collection)
            \cup (IF e.key_expr = None THEN {}
                  ELSE ExprPaths(Child(path, "key_expr", 0), e.key_expr))
            \cup ExprPaths(Child(path, "value_expr", 0), e.value_expr)
            \cup (IF e.cond = None THEN {}
                  ELSE ExprPaths(Child(Child(path, "cond", 0), "expr", 0), e.cond.expr))
      [] e.t = "Template" -> TemplateExprPaths(path, e)
      [] OTHER -> {}

TemplateExprPaths(path, tpl) ==
    LET Sub(p, f) == Child(p, f, 0)
        DirectivePaths(p, d) ==
            IF d.t = "If"
            THEN ExprPaths(Sub(Sub(p, "if_expr"), "cond_expr"), d.if_expr.cond_expr)
                 \cup TemplateExprPaths(Sub(Sub(p, "if_expr"), "template"), d.if_expr.template)
                 \cup (IF d.else_expr = None THEN {}
                       ELSE TemplateExprPaths(Sub(Sub(p, "else_expr"), "template"),
                                              d.else_expr.template))
            ELSE ExprPaths(Sub(Sub(p, "for_expr"), "collection_expr"),
                           d.for_expr.collection_expr)
                 \cup TemplateExprPaths(Sub(Sub(p, "for_expr"), "template"),
                                        d.for_expr.template)
    IN  UNION {LET el == tpl.elements[i]
                   p == Child(path, "elements", i)
               IN  CASE el.t = "Literal" -> {}
                     [] el.t = "Interpolation" -> ExprPaths(Sub(p, "expr"), el.expr)
                     [] el.t = "Directive" -> DirectivePaths(p, el.directive) :
               i \in 1..Len(tpl.elements)}

BodyExprPaths(path, b) ==
    UNION {LET s == b.structures[i]
               p == Child(path, "structures", i)
           IN  IF s.t = "Attribute" THEN ExprPaths(Child(p, "value", 0), s.value)
               ELSE BodyExprPaths(Child(p, "body", 0), s.body) : i \in 1..Len(b.structures)}

\* The paths of the nodes that a hook has been called on.
Visited(hook) == {calls[i].path : i \in {j \in 1..Len(calls) : calls[j].hook = hook}}

\* C16: a visitor that overrides only visit_expr_mut, and goes on with the
\* free function, is called on every Expression node of the tree when it is
\* started with visit_body_mut, object keys that are expressions and the
\* collection of a for directive included.
C16_EveryExpressionVisited ==
    (pc = "visited" /\ mode = "body")
        => \A p \in BodyExprPaths(<<>>, result.tree) : p \in Visited("visit_expr_mut")

\* The node at the end of a path.  The expression of an index operator and
\* the directive of a template element have the path of what holds them.
Payload(n) ==
    IF "t" \in DOMAIN n /\ n.t = "Index" THEN n.value
    ELSE IF "t" \in DOMAIN n /\ n.t = "Directive" THEN n.directive
    ELSE n

Field(n, f) ==
    CASE f = "lhs_expr" -> n.lhs
      [] f = "rhs_expr" -> n.rhs
      [] f = "true_expr" -> n.true
      [] f = "false_expr" -> n.false
      [] f = "operators" -> n.ops
      [] f = "cond_expr" /\ "cond" \in DOMAIN n -> n.cond
      [] f = "collection_expr" /\ "collection" \in DOMAIN n -> n.collection
      [] OTHER -> n[f]

RECURSIVE NodeAt(_, _)
NodeAt(n, path) ==
    IF path = <<>> THEN Payload(n)
    ELSE LET held == Field(Payload(n), path[1].f)
         IN  NodeAt(IF path[1].i = 0 THEN held ELSE held[path[1].i], Tail(path))

\* The children of the node at path that hooks were called on, in the order
\* of the calls; the calls that follow each other on one child count once.
IsChildCall(path, k) ==
    /\ Len(calls[k].path) = Len(path) + 1
    /\ SubSeq(calls[k].path, 1, Len(path)) = path

ChildCalls(path) ==
    LET Last(k) == calls[k].path[Len(path) + 1]
        seen[k \in 0..Len(calls)] ==
            IF k = 0 THEN <<>>
            ELSE IF IsChildCall(path, k)
                    /\ (seen[k - 1] = <<>> \/ seen[k - 1][Len(seen[k - 1])] # Last(k))
            THEN Append(seen[k - 1], Last(k))
            ELSE seen[k - 1]
    IN  seen[Len(calls)]

One(field) == <<[f |-> field, i |-> 0]>>

Opt(present, field) == IF present THEN One(field) ELSE <<>>

Each(field, n) == [i \in 1..n |-> [f |-> field, i |-> i]]

\* The children of a node in source order, for the hook called on the node.
SourceOrder(hook, n) ==
    CASE hook = "visit_binary_op_mut" -> One("lhs_expr") \o One("operator") \o One("rhs_expr")
      [] hook = "visit_conditional_mut" ->
            One("cond_expr") \o One("true_expr") \o One("false_expr")
      [] hook = "visit_unary_op_mut" -> One("operator") \o One("expr")
      [] hook = "visit_traversal_mut" -> One("expr") \o Each("operators", Len(n.ops))
      [] hook = "visit_object_item_mut" -> One("key") \o One("value")
      [] hook = "visit_for_expr_mut" ->
            One("intro") \o Opt(n.key_expr # None, "key_expr") \o One("value_expr")
            \o Opt(n.cond # None, "cond")
      [] hook = "visit_for_intro_mut" ->
            Opt(n.key_var # None, "key_var") \o One("value_var") \o One("collection_expr")
      [] hook = "visit_block_mut" ->
            One("ident") \o Each("labels", Len(n.labels)) \o One("body")
      [] hook = "visit_if_directive_mut" ->
            One("if_expr") \o Opt(n.else_expr # None, "else_expr") \o One("endif_expr")

OrderedHooks ==
    {"visit_binary_op_mut", "visit_conditional_mut", "visit_unary_op_mut",
     "visit_traversal_mut", "visit_object_item_mut", "visit_for_expr_mut",
     "visit_for_intro_mut", "visit_block_mut", "visit_if_directive_mut"}

\* C17: the default recursion calls the hooks for the children of a node in
\* source order, and no hook twice on one child: lhs, operator, rhs of a
\* binary operation; cond, true, false of a conditional; operator, operand of
\* a unary operation; expression, then operators of a traversal; key, value
\* of an object item; intro (key_var, value_var, collection), key_expr,
\* value_expr, cond of a for expression; ident, labels, body of a block; if,
\* else, endif of an if directive.
C17_ChildrenInSourceOrder ==
    pc = "visited"
        => /\ \A k \in 1..Len(calls) :
                 calls[k].hook \in OrderedHooks
                    => ChildCalls(calls[k].path)
                       = SourceOrder(calls[k].hook, NodeAt(result.tree, calls[k].path))
           /\ \A j, k \in 1..Len(calls) : j # k => calls[j] # calls[k]

\* The visitor has been through a binary operation whose operands are
\* visited around its operator.
C17_Witness ==
    /\ pc = "visited"
    /\ \E k \in 1..Len(calls) :
          /\ calls[k].hook = "visit_binary_op_mut"
          /\ ChildCalls(calls[k].path)
             = One("lhs_expr") \o One("operator") \o One("rhs_expr")

\* C18: only attribute keys are checked for redefinition, and only within one
\* body: a key may occur again in a nested block or in a sibling block, and
\* the identifier of a block is never a redefinition, neither of another
\* block nor of an attribute key of the same body.
KeyInParentAndBlock ==
    <<"a", " ", "=", " ", "1", "\n",
      "a", " ", "{", "\n", " ", "a", " ", "=", " ", "1", "\n", "}", "\n">>

SiblingBlocks ==
    <<"a", " ", "{", "\n", " ", "a", " ", "=", " ", "1", "\n", "}", "\n",
      "a", " ", "{", "\n", " ", "a", " ", "=", " ", "1", "\n", "}", "\n">>

BlockThenKey ==
    <<"a", " ", "{", "\n", " ", "a", " ", "=", " ", "1", "\n", "}", "\n",
      "a", " ", "=", " ", "1", "\n">>

\* The identifiers of the blocks and the keys of the attributes of one body.
BlockIdents(b) ==
    {b.structures[i].ident.name : i \in {j \in 1..Len(b.structures) : b.structures[j].t = "Block"}}

AttributeKeys(b) ==
    {b.structures[i].key.name :
        i \in {j \in 1..Len(b.structures) : b.structures[j].t = "Attribute"}}

C18_OnlyKeysOfOneBody ==
    (Parsed /\ mode = "body")
        => /\ (input \in StructureInputs /\ ~HasRedefinition) => ~RedefinitionError
           /\ input \in {KeyInParentAndBlock, SiblingBlocks, BlockThenKey}
                 => /\ result.ok
                    /\ \E b \in Bodies(result.tree) :
                          b # result.tree /\ "a" \in {k[1] : k \in AttributeKeys(b)}
           /\ input = KeyInParentAndBlock
                 => AttributeKeys(result.tree) \cap BlockIdents(result.tree) # {}
           /\ input = SiblingBlocks
                 => /\ Len(result.tree.structures) = 2
                    /\ Cardinality(BlockIdents(result.tree)) = 1

\* A body has been accepted in which the key `a` is an attribute of the body,
\* the identifier of a block of the body and an attribute of that block.
C18_Witness ==
    /\ Accepted
    /\ mode = "body"
    /\ input = KeyInParentAndBlock
    /\ AttributeKeys(result.tree) \cap BlockIdents(result.tree) # {}

\* C19: the driver reads the horizontal whitespace after a term or traversal
\* provisionally.  When the next two bytes start a traversal, a conditional or
\* a binary operator, the whitespace becomes the suffix of the left-hand side;
\* otherwise (`//`, `/*`, `..`, any other two bytes, fewer than two bytes) the
\* driver returns with the cursor before the whitespace and the state as it
\* was.
\* The two bytes at q start an operator of the driver.
OperatorFollows(q) ==
    /\ At(q + 1) # EOF
    /\ ~(At(q) = "/" /\ At(q + 1) \in {"/", "*"})
    /\ ~(At(q) = "." /\ At(q + 1) = ".")
    /\ \/ At(q) \in {".", "[", "?"}
       \/ At(q) \in {"!", "<", ">", "+", "-", "*", "/", "%", "&", "|"}
       \/ (At(q) = "=" /\ At(q + 1) = "=")

\* The state of the driver after a term without unary operator.
AfterTerm == on_expr_term(DefaultExprState, Variable(<<"l", "h", "s">>))

HorizontalOnly(span) ==
    /\ span # NoSpan
    /\ span[1] <= span[2]
    /\ \A k \in span[1]..(span[2] - 1) : At(k) \in {" ", "\t"}

OperatorNodes == {e \in TreeExprs : e.t \in {"BinaryOp", "Conditional", "Traversal"}}

Operand(e) ==
    CASE e.t = "BinaryOp" -> e.lhs
      [] e.t = "Conditional" -> e.cond
      [] e.t = "Traversal" -> e.expr

C19_ProvisionalWhitespace ==
    /\ pc = "parsed"
          => \A p \in 0..Len(input) :
                LET q == sp(p)
                    r == expr_loop(p, AfterTerm)
                IN  IF OperatorFollows(q)
                    THEN r.ok => /\ LeftTerm(r.val.current)
                                      = [AfterTerm.current EXCEPT !.suf = Span(p, q)]
                                 /\ r.val.current # AfterTerm.current
                    ELSE r = Ok(p, AfterTerm)
    /\ (pc = "parsed" /\ result.ok)
          => \A e \in OperatorNodes :
                /\ HorizontalOnly(Operand(e).suf)
                /\ OperatorFollows(Operand(e).suf[2])

\* An accepted input with whitespace in the suffix of a left-hand side, and
\* with whitespace after a term that no operator follows, which is the suffix
\* the enclosing production gave to an expression.
C19_Witness ==
    /\ pc = "parsed"
    /\ result.ok
    /\ \E e \in OperatorNodes : Operand(e).suf[2] > Operand(e).suf[1]
    /\ \E p \in 1..Len(input) :
          /\ sp(p) > p
          /\ At(p - 1) \notin {" ", "\t"}
          /\ ~OperatorFollows(sp(p))
          /\ expr_loop(p, AfterTerm) = Ok(p, AfterTerm)
          /\ \E e \in TreeExprs : e.suf = Span(p, sp(p))

\* C20: every structure of a body, the last one of a multi-line block body
\* included, is followed, after horizontal whitespace and an optional line
\* comment, by a line ending or by the end of the input; otherwise the parse
\* fails with a hard error that expects newline or eof.  Two attributes on one
\* line are rejected, and so is a multi-line block that is closed on the line
\* of its last attribute.
TwoAttributesOnOneLine == <<"a", " ", "=", " ", "1", " ", "b", " ", "=", " ", "2">>

ClosedOnLastLine == <<"b", " ", "{", "\n", " ", "a", " ", "=", " ", "1", " ", "}">>

EndsLine(c) == At(c) = EOF \/ At(c) = "\n" \/ (At(c) = "\r" /\ At(c + 1) = "\n")

\* The offset after the horizontal whitespace and the line comment at p.
AfterStructure(p) == opt_line_comment(sp(p))

HardNewlineOrEof(r, c) == ~r.ok /\ r.cut /\ r.pos = c /\ r.msg = "newline or eof"

MultilineBodies == {b \in Bodies(result.tree) : ~b.prefer_oneline}

C20_StructureEndsLine ==
    (pc = "parsed" /\ mode = "body")
        => /\ result.ok
                 => \A b \in MultilineBodies : \A i \in 1..Len(b.structures) :
                       /\ b.structures[i].suf # NoSpan
                       /\ EndsLine(b.structures[i].suf[2])
           /\ \A p \in 0..Len(input) :
                 LET w == ws(p)
                     s == structure(w, on_ws(DefaultBodyState, Span(p, w)))
                 IN  (s.ok /\ ~EndsLine(AfterStructure(s.pos)))
                         => /\ HardNewlineOrEof(body_loop(p, DefaultBodyState),
                                                AfterStructure(s.pos))
                            /\ HardNewlineOrEof(body(p), AfterStructure(s.pos))
           /\ input \in {TwoAttributesOnOneLine, ClosedOnLastLine}
                 => /\ ~result.ok
                    /\ result.msg = "newline or eof"
                    /\ result.offset = Len(input) - 1 - (IF input = ClosedOnLastLine THEN 0 ELSE 4)
                    /\ body(0).cut

\* The multi-line block closed on the line of its last attribute has been
\* rejected at the closing brace.
C20_Witness ==
    /\ pc = "parsed"
    /\ mode = "body"
    /\ input = ClosedOnLastLine
    /\ ~result.ok
    /\ result.msg = "newline or eof"
    /\ At(result.offset) = "}"

\* C21: the body of a block has prefer_oneline set exactly when no line
\* ending follows the opening brace after horizontal whitespace and an
\* optional line comment; such a body holds at most one attribute and no
\* block; the bodies of `{}` and `{ }` are one-line; the body of the input and
\* the bodies of the multi-line alternative have prefer_oneline unset.
EmptyBlock == <<"a", " ", "{", "}">>

BlankBlock == <<"a", " ", "{", " ", "}">>

OnelineBlock == <<"a", " ", "{", " ", "b", " ", "=", " ", "1", " ", "}", "\n">>

\* A line ending follows the brace at p after blanks and a line comment.
RECURSIVE LineEndsAfter(_)
LineEndsAfter(p) ==
    IF At(p) \in {" ", "\t"} THEN LineEndsAfter(p + 1)
    ELSE IF At(p) = "#" \/ (At(p) = "/" /\ At(p + 1) = "/")
    THEN \E k \in p..Len(input) :
            /\ \A m \in p..(k - 1) : At(m) \notin {"\n", "\r", EOF}
            /\ (At(k) = "\n" \/ (At(k) = "\r" /\ At(k + 1) = "\n"))
    ELSE At(p) = "\n" \/ (At(p) = "\r" /\ At(p + 1) = "\n")

OnelineBodies == {b \in Bodies(result.tree) : b.prefer_oneline}

C21_OnelineFlag ==
    /\ pc = "parsed"
          => \A p \in 0..Len(input) :
                (At(p) = "{" /\ block_body(p).ok)
                    => (block_body(p).val.prefer_oneline <=> ~LineEndsAfter(p + 1))
    /\ (pc = "parsed" /\ mode = "body" /\ result.ok)
          => /\ ~result.tree.prefer_oneline
             /\ \A b \in OnelineBodies :
                   /\ Len(b.structures) <= 1
                   /\ \A i \in 1..Len(b.structures) : b.structures[i].t = "Attribute"
             /\ \A b \in MultilineBodies : b = result.tree \/ b.pre # NoSpan
    /\ (pc = "parsed" /\ mode = "body" /\ input \in {EmptyBlock, BlankBlock})
          => /\ result.ok
             /\ result.tree.structures[1].body.prefer_oneline
             /\ result.tree.structures[1].body.structures = <<>>

\* A body has been accepted that holds a one-line block with an attribute
\* next to a multi-line block.
C21_Witness ==
    /\ pc = "parsed"
    /\ mode = "body"
    /\ result.ok
    /\ \E b \in OnelineBodies : Len(b.structures) = 1
    /\ \E b \in MultilineBodies : b # result.tree

\* C22: once a production has committed, a missing required token is a hard
\* error that no enclosing alternative or optional recovers from: a missing
\* identifier, `in`, `:` or `=>` of a for expression, a missing `:` of a
\* conditional and a missing closing delimiter after `[`, `{`, `(` or the `(`
\* of a function call fail the whole parse at the place of the missing token.
\* The parse failed with a hard error of the parser at offset k.
HardErrorAt(k, msg) ==
    /\ ~result.ok
    /\ result.offset = k
    /\ result.msg = msg
    /\ IF mode = "body" THEN ~body(0).ok /\ body(0).cut
       ELSE ~expr(0).ok /\ expr(0).cut

\* The input is the expression c behind the wrapper w, parsed by the entry
\* point of the wrapper.
IsCutInput(w, c) ==
    /\ pc = "parsed"
    /\ input = w \o c.text
    /\ mode = (IF w \in CutBodyWrappers THEN "body" ELSE "expr")

ObjectCutAtEof == [text |-> <<"{", "a", " ", "=", " ", "1">>, msg |-> "object item", at |-> 6]

C22_MissingTokenIsHard ==
    \A w \in CutWrappers \cup CutBodyWrappers, c \in CutCores :
        IsCutInput(w, c) => HardErrorAt(Len(w) + c.at, c.msg)

\* The same for every missing token but the closing brace of an object whose
\* items end with the input.
C22_HardButObjectAtEof ==
    \A w \in CutWrappers \cup CutBodyWrappers, c \in CutCores \ {ObjectCutAtEof} :
        IsCutInput(w, c) => HardErrorAt(Len(w) + c.at, c.msg)

\* An object cut off after an item fails by backtracking wherever it stands.
C22_ObjectAtEofBacktracks ==
    \A w \in CutWrappers \cup CutBodyWrappers :
        IsCutInput(w, ObjectCutAtEof)
            => /\ ~result.ok
               /\ ~HardErrorAt(Len(w) + ObjectCutAtEof.at, ObjectCutAtEof.msg)
               /\ ~object(Len(w), DefaultExprState).ok
               /\ ~object(Len(w), DefaultExprState).cut

\* C23 (as stated): a key is recorded as Ident exactly when it is a bare
\* variable, and every key recorded as Expression is parenthesized in the
\* source; `a.b`, `1`, `"a"` and `null` without parentheses are not accepted
\* as keys.
ObjectNodes == {e \in TreeExprs : e.t = "Object"}

ObjectKeys == UNION {{o.items[i].key : i \in 1..Len(o.items)} : o \in ObjectNodes}

\* The source of a key: from the end of the trivia before it to its suffix.
KeyText(k) == Slice(k.pre[2], k.suf[1])

IsBareIdentifier(text) ==
    /\ Len(text) > 0
    /\ is_id_start(text[1])
    /\ \A i \in 1..Len(text) : is_id_continue(text[i])
    /\ text \notin ReservedWords

Parenthesized(text) == Len(text) >= 2 /\ text[1] = "(" /\ text[Len(text)] = ")"

C23_ExpressionKeysParenthesized ==
    (pc = "parsed" /\ result.ok)
        => \A k \in ObjectKeys :
              /\ k.t = "Ident" <=> IsBareIdentifier(KeyText(k))
              /\ k.t = "Expression" => Parenthesized(KeyText(k))

\* C23 (amended): a key is recorded as Ident exactly when its source is a bare
\* identifier that is no reserved word, that is when the key expression is a
\* Variable; every other key expression is accepted as well, parenthesized
\* or not, and recorded as Expression: `a.b`, `1`, `"a"`, `null` and `(a)`
\* are keys of the kinds Traversal, Number, String, Null and Parenthesis.
KeyKinds ==
    {<<(<<"{", "a", ".", "b", " ", "=", " ", "1", "}">>), "Traversal">>,
     <<(<<"{", "1", " ", "=", " ", "2", "}">>), "Number">>,
     <<(<<"{", "\"", "a", "\"", " ", "=", " ", "1", "}">>), "String">>,
     <<(<<"{", "n", "u", "l", "l", " ", "=", " ", "1", "}">>), "Null">>,
     <<(<<"{", "(", "a", ")", " ", "=", " ", "1", "}">>), "Parenthesis">>}

C23_AnyExpressionIsAKey ==
    /\ (pc = "parsed" /\ result.ok)
          => \A k \in ObjectKeys :
                /\ k.t \in {"Ident", "Expression"}
                /\ k.t = "Ident" <=> IsBareIdentifier(KeyText(k))
                /\ k.t = "Ident" => k.name = KeyText(k)
                /\ k.t = "Expression" => k.expr.t # "Variable"
    /\ (pc = "parsed" /\ mode = "expr")
          => \A kk \in KeyKinds :
                input = kk[1]
                    => /\ result.ok
                       /\ Len(result.tree.items) = 1
                       /\ result.tree.items[1].key.t = "Expression"
                       /\ result.tree.items[1].key.expr.t = kk[2]

\* An object has been accepted whose key is a traversal without parentheses.
C23_Witness ==
    /\ pc = "parsed"
    /\ mode = "expr"
    /\ result.ok
    /\ input = <<"{", "a", ".", "b", " ", "=", " ", "1", "}">>
    /\ \E k \in ObjectKeys : k.t = "Expression" /\ k.expr.t = "Traversal"

\* C24: parsing terminates because every loop and every nested expression
\* makes progress: a traversal that lets the driver loop go on is not empty,
\* a pass of the body loop and a pass of the object-item loop consume at
\* least one byte, and every production that parses a nested expression has
\* consumed a byte of its own before, so that no expression is empty; both
\* entry points return a tree or an error inside the input.
Consumes(r, p) == r.ok => r.pos > p

\* The production r, if it succeeds at p, starts with one of the bytes.
StartsWith(r, p, bytes) == r.ok => (At(p) \in bytes /\ r.pos > p)

\* One pass of the object-item loop at p that goes on to the next item.
ObjectPassConsumes(p) ==
    LET q == ws(p)
        k == object_key(q)
        v == object_value(k.pos)
    IN  (At(q) \notin {EOF, "}"} /\ k.ok /\ v.ok) => (k.pos > p /\ v.pos > k.pos)

\* One pass of the body loop at p.
BodyPassConsumes(p) ==
    LET w == ws(p)
        s == structure(w, on_ws(DefaultBodyState, Span(p, w)))
    IN  s.ok => s.pos > p

C24_EveryPassConsumes ==
    pc = "parsed"
        => /\ \A p \in 0..Len(input) :
                 /\ Consumes(traversal(p, AfterTerm), p)
                 /\ BodyPassConsumes(p)
                 /\ ObjectPassConsumes(p)
                 /\ Consumes(expr(p), p)
                 /\ StartsWith(array(p, DefaultExprState), p, {"["})
                 /\ StartsWith(object(p, DefaultExprState), p, {"{"})
                 /\ StartsWith(parenthesis(p, DefaultExprState), p, {"("})
                 /\ StartsWith(func_args(p), p, {"("})
                 /\ StartsWith(conditional(p, AfterTerm), p, {"?"})
                 /\ StartsWith(binary_op(p, AfterTerm), p, BinaryOpStart \cup {"="})
                 /\ StartsWith(unary_op(p, DefaultExprState), p, {"-", "!"})
                 /\ StartsWith(traversal_operator(p), p, {".", "["})
                 /\ StartsWith(stringlike(p, DefaultExprState), p, {"\""})
           /\ IF result.ok THEN result.tree.t \in {"Body"} \cup {e.t : e \in TreeExprs}
              ELSE result.offset \in 0..Len(input)

\* An input of at least twenty bytes has been parsed in which the driver loop
\* went on after a traversal and the object-item loop after an item.
C24_Witness ==
    /\ pc = "parsed"
    /\ result.ok
    /\ Len(input) >= 20
    /\ \E p \in 0..Len(input) :
          traversal(p, AfterTerm).ok /\ expr_loop(traversal(p, AfterTerm).pos, AfterTerm).ok
    /\ \E o \in ObjectNodes : Len(o.items) >= 2

\* C25: parse_expr takes no trivia around the expression: an accepted
\* expression with spaces, line endings or comments before it is rejected at
\* offset 0 by the dispatch on the first byte, and with such trivia behind it
\* the parser stops at the end of the expression and the input is rejected
\* there for not being at its end.
C25_NoTriviaAroundExpression ==
    (pc = "parsed" /\ mode = "expr")
        => /\ input \in TrimExprs => (result.ok /\ expr(0).pos = Len(input))
           /\ \A t \in TriviaSet, e \in TrimExprs :
                 /\ input = t \o e
                       => /\ ~result.ok
                          /\ result.offset = 0
                          /\ ~expr(0).ok
                          /\ expr(0).pos = 0
                 /\ input = e \o t
                       => /\ ~result.ok
                          /\ result.msg = "eof"
                          /\ result.offset = Len(e)
                          /\ expr(0).ok
                          /\ expr(0).pos = Len(e)

\* An expression followed by a space and a block comment has been rejected at
\* the end of the expression.
C25_Witness ==
    /\ pc = "parsed"
    /\ mode = "expr"
    /\ input = <<"a", " ", "+", " ", "b", " ", "/", "*", "c", "*", "/", " ">>
    /\ ~result.ok
    /\ result.offset = 5

\* C26: an identifier that is followed by whitespace, line endings or
\* comments and then `(` is parsed as the call of a function of that name.
\* Hence in `{ a = b` newline `(c) = d }` the `(c)` is the argument list of
\* `b` and not the key of a second item.
TwoLineObject ==
    <<"{", " ", "a", " ", "=", " ", "b", "\n", "(", "c", ")", " ", "=", " ", "d", " ", "}">>

TwoLineCall == <<"{", " ", "a", " ", "=", " ", "b", "\n", "(", "c", ")", " ", "}">>

\* The offset behind the blanks, line endings and comments at p.
RECURSIVE SkipTrivia(_)
SkipTrivia(p) ==
    IF At(p) \in {" ", "\t", "\n", "\r"} THEN SkipTrivia(p + 1)
    ELSE IF At(p) = "#" \/ (At(p) = "/" /\ At(p + 1) = "/")
    THEN (IF \E k \in p..Len(input) : At(k) = "\n"
          THEN SkipTrivia(CHOOSE k \in p..Len(input) :
                              At(k) = "\n" /\ \A m \in p..(k - 1) : At(m) # "\n")
          ELSE Len(input))
    ELSE IF At(p) = "/" /\ At(p + 1) = "*"
    THEN (IF \E k \in (p + 2)..Len(input) : At(k) = "*" /\ At(k + 1) = "/"
          THEN SkipTrivia(2 + CHOOSE k \in (p + 2)..Len(input) :
                                  /\ At(k) = "*" /\ At(k + 1) = "/"
                                  /\ \A m \in (p + 2)..(k - 1) :
                                        ~(At(m) = "*" /\ At(m + 1) = "/"))
          ELSE p)
    ELSE p

\* An identifier starts at p.
IdentifierAt(p) == is_id_start(At(p)) /\ (p = 0 \/ ~is_id_continue(At(p - 1)))

C26_CallAcrossLines ==
    /\ pc = "parsed"
          => \A p \in 0..Len(input) :
                IdentifierAt(p)
                    => LET r == identlike(p, DefaultExprState)
                           i == str_ident(p)
                       IN  IF At(SkipTrivia(i.pos)) = "("
                           THEN IF r.ok
                                THEN /\ r.val.current.t = "FuncCall"
                                     /\ r.val.current.name = i.val
                                     /\ r.val.current.args.pre = Span(i.pos, SkipTrivia(i.pos))
                                     /\ At(r.pos - 1) = ")"
                                ELSE r.cut
                           ELSE r.ok /\ r.pos = i.pos /\ r.val.current.t # "FuncCall"
    /\ (pc = "parsed" /\ mode = "expr" /\ input = TwoLineObject)
          => /\ ~result.ok
             /\ result.offset = 12
             /\ result.msg = "object item"
             /\ identlike(6, DefaultExprState).ok
             /\ identlike(6, DefaultExprState).pos = 11
    /\ (pc = "parsed" /\ mode = "expr" /\ input = TwoLineCall)
          => /\ result.ok
             /\ Len(result.tree.items) = 1
             /\ result.tree.items[1].value.expr.t = "FuncCall"

\* The object with the parenthesized key on the second line has been parsed:
\* the value of its first item was read as the call b(c) and the parse failed
\* at the `=` behind it.
C26_Witness ==
    /\ pc = "parsed"
    /\ mode = "expr"
    /\ input = TwoLineObject
    /\ ~result.ok
    /\ result.offset = 12
    /\ identlike(6, DefaultExprState).val.current.t = "FuncCall"

====
